---- MODULE Spec2Model ----
(***************************************************************************)
(* Model of the teardown pass of terminate_resources.py and of the         *)
(* orchestration script TP1/main.py.                                       *)
(*                                                                         *)
(* The cloud account is the environment: a set of resource handles.  The   *)
(* program is a sequential script; every provider call is one step, so     *)
(* that another operator acting on the same account can interleave         *)
(* between two calls.  The calls issued by the current teardown pass are   *)
(* recorded in `calls`, in the order the script issues them.               *)
(***************************************************************************)
EXTENDS Integers, Sequences, FiniteSets, TLC

\* ------------------------------------------------------------------ bounds
MaxLB        == 1   \* ELBv2 load balancers an account may hold
MaxListeners == 2   \* listeners per load balancer
MaxCLB       == 1   \* classic load balancers
MaxTG        == 2   \* target groups
MaxInst      == 2   \* EC2 instances
MaxRuns      == 2   \* successive invocations of the teardown sequence
MaxOther     == 1   \* steps another operator takes on the same account
MaxMicro     == 1   \* t2.micro instances the script creates (nb_instances_micro)
MaxLarge     == 1   \* t2.large instances the script creates (nb_instances_large)
MaxPolls     == 12  \* polls of an unbounded wait that are counted
MaxArnLen    == 5   \* characters of an ARN
MaxTargets   == 2   \* instances of the target group whose metrics are read

\* ----------------------------------------------------------------- handles
\* A handle is <<kind, id, sub>>; a listener <<"listener", lb, k>> belongs to
\* load balancer <<"lb", lb, 0>>.
LB(n)          == <<"lb", n, 0>>
Listener(n, k) == <<"listener", n, k>>
CLB(n)         == <<"clb", n, 0>>
TG(n)          == <<"tg", n, 0>>
Inst(n)        == <<"instance", n, 0>>
SG(n)          == <<"sg", n, 0>>        \* security group
Ingress(n)     == <<"ingress", n, 0>>   \* the ingress rules of security group n
KP(n)          == <<"key", n, 0>>       \* key pair held by the provider

AllLBs       == {LB(n) : n \in 1..MaxLB}
AllListeners == {Listener(n, k) : n \in 1..MaxLB, k \in 1..MaxListeners}
AllCLBs      == {CLB(n) : n \in 1..MaxCLB}
AllTGs       == {TG(n) : n \in 1..MaxTG}
AllInsts     == {Inst(n) : n \in 1..MaxInst}

Kind(h)      == h[1]
OfKind(S, k) == {h \in S : Kind(h) = k}
ListenersOf(S, lb) == {h \in S : Kind(h) = "listener" /\ h[2] = lb[2]}

Range(s) == {s[p] : p \in 1..Len(s)}
\* handles are listed by id, then by sub-id
Before(a, b) == a[2] < b[2] \/ (a[2] = b[2] /\ a[3] < b[3])
\* the set S as the list in ascending order
Ascending(S) ==
    CHOOSE s \in [1..Cardinality(S) -> S] :
        /\ Range(s) = S
        /\ \A p, q \in 1..Cardinality(S) : p < q => Before(s[p], s[q])

VARIABLES
    acct,         \* handles that exist in the account/region
    terminated,   \* instances for which termination has been requested
    tgBusy,       \* target groups still referenced by a live resource
    otherSteps,   \* steps taken so far by the other operator
    pc,           \* position of the script
    err,          \* the exception that ended the script, "none" otherwise
    load_balancers, listeners, classic_load_balancers,
    target_groups, instance_ids,      \* the locals of terminate_resources.py
    idx, j,       \* loop positions (outer loop, listener loop)
    calls,        \* provider calls issued by the current teardown pass
    run,          \* number of the current teardown pass
    start,        \* the account as it was when the current pass began
    quiet,        \* passes just before this one that issued no deletion
    report        \* what the teardown functions returned to their caller

\* the globals of TP1/main.py
VARIABLES
    steps,                       \* the phases the script has carried out
    instance_ids_micro, instance_ids_large,
    deployed,                    \* instances on which the payload runs
    target_group_arn_cluster1, target_group_arn_cluster2,
    load_balancer_arn, listener_arn,
    registered,                  \* <<target group, instance>> registrations
    attempt,                     \* polls made by the wait under way
    erred,                       \* whether one of these polls failed to fetch
    last,                        \* what the latest of these polls read
    pos,                         \* position in the loop over a cluster's instances
    slept,                       \* time.sleep(delay) calls of the wait_for_ssh under way
    health_status_cluster1, health_status_cluster2,
    securiy_group_id,            \* what create_security_group handed back
    key_file,                    \* the local file ./my-key-pair.pem
    faults                       \* sections in which the provider answered
                                 \* with an unclassified error

\* a second operator run on the same account, seen from its teardown
VARIABLES
    pc_other,     \* position of the teardown sequence of the second run
    reaped        \* what the teardown of the second run deleted or terminated

otherVars == <<pc_other, reaped>>

\* attach_volume_to_instance of TP2/create_instances.py
VARIABLES
    pc_attach,         \* position of the function
    attachment_state,  \* Attachments[0]['State'] of the volume, "none" without
                       \* an attachment
    polled             \* describe_volumes calls made, counted up to MaxPolls

attachVars == <<pc_attach, attachment_state, polled>>

\* extract_lb_resource_from_arn of cloudwatch_loadbalancer.py
VARIABLES
    full_arn,     \* the argument, a string as the sequence of its characters
    extracted     \* what the call returned or raised

arnVars == <<full_arn, extracted>>

\* the metrics aggregation loop of TP1/main.py for one target group
VARIABLES
    datapoints,             \* the Datapoints CloudWatch holds, by instance
                            \* and metric, as <<Timestamp, Average>> pairs
    group_instance_ids,     \* instance_ids of the target group
    aggregated_timestamps,
    aggregated_values,      \* aggregated_values[metric_name], before the
                            \* division
    aggregated_data,        \* what was stored, metric by metric
    contributors,           \* instances whose values were added for the
                            \* metric under way
    metric_idx, inst_idx,   \* positions of the two loops
    pc_agg                  \* position in the loop body

aggVars == <<datapoints, group_instance_ids, aggregated_timestamps,
             aggregated_values, aggregated_data, contributors, metric_idx,
             inst_idx, pc_agg>>

\* the variables of what is checked apart from the two scripts
apartVars == <<attachVars, arnVars, aggVars>>

orchVars == <<steps, instance_ids_micro, instance_ids_large, deployed,
              target_group_arn_cluster1, target_group_arn_cluster2,
              load_balancer_arn, listener_arn, registered, attempt,
              erred, last, pos, slept,
              health_status_cluster1, health_status_cluster2,
              securiy_group_id, key_file, faults>>

tdVars == <<acct, terminated, tgBusy, otherSteps, pc, err, load_balancers,
            listeners, classic_load_balancers, target_groups, instance_ids,
            idx, j, calls, run, start, quiet, report>>

\* what a function without a return statement hands back, and the value of
\* `report` while the sequence has not returned
None    == [value |-> "None"]
Pending_report == [value |-> "pending"]

Call(op, arg, res, ret) == [op |-> op, arg |-> arg, res |-> res, ret |-> ret]


\* -------------------------------------------------------------- provider
\* What the provider answers to a call on handle h in the account S.  Any
\* call on a resource may also fail with an unclassified error ("Other").
\* describe_listeners and delete_listener signal a missing resource;
\* the delete calls for load balancers and target groups succeed on one.
ProviderResults(op, h, S, busy) ==
    {"Other"} \cup
    CASE op \in {"describe_listeners", "delete_listener"} ->
            IF h \in S THEN {"ok"} ELSE {"NotFound"}
      [] op = "delete_target_group" ->
            IF h \in S /\ h \in busy THEN {"InUse"} ELSE {"ok"}
      [] OTHER -> {"ok"}

\* terminate_instances on a batch: one missing id fails the whole call
TerminateResults(ids, S) ==
    {"Other"} \cup (IF Range(ids) \subseteq S THEN {"ok"} ELSE {"NotFound"})

\* the account after a successful delete of h (a load balancer takes its
\* listeners with it)
Deleted(S, h) ==
    IF Kind(h) = "lb" THEN (S \ {h}) \ ListenersOf(S, h) ELSE S \ {h}

\* ------------------------------------------------- terminate_resources.py
\* the except clause of delete_all_target_groups: the one provider error
\* that is handled; every other error leaves the function
Caught_nothing(op, res) == FALSE
Caught_everything(op, res) == res # "ok"
Caught_missing(op, res) ==
    (op = "delete_target_group" /\ res = "InUse") \/ res = "NotFound"
Caught(op, res) == op = "delete_target_group" /\ res = "InUse"

\* delete_all_load_balancers(); delete_all_target_groups();
\* terminate_all_instances(): the order in which the script calls them
TeardownSequence_tgFirst == <<"tg_describe", "lb_describe", "inst_describe">>
TeardownSequence == <<"lb_describe", "tg_describe", "inst_describe">>

\* where the script goes when the function entered at pc value f returns
Return(f) ==
    LET p == CHOOSE q \in 1..Len(TeardownSequence) : TeardownSequence[q] = f
    IN  IF p = Len(TeardownSequence) THEN "done" ELSE TeardownSequence[p + 1]

\* an uncaught exception ends the script
Raise(e) ==
    /\ pc' = "raised"
    /\ err' = e

\* where the script goes once the loop over the load balancers lst is at
\* position p
AfterLBs(lst, p) ==
    IF p > Len(lst) THEN "clb_describe" ELSE "describe_listeners"

\* where the script goes once the loop over the target groups lst is at
\* position p, the deletion before it having ended with res
AfterTargetGroup_break(res, lst, p) ==
    IF p > Len(lst) \/ res = "InUse" THEN "inst_describe" ELSE "delete_tg"
AfterTargetGroup(res, lst, p) ==
    IF p > Len(lst) THEN Return("tg_describe") ELSE "delete_tg"

\* where the script goes with the listeners ls of the current load balancer
\* from position p on
AfterListeners_skip(ls, p) == "delete_lb"
AfterListeners(ls, p) ==
    IF p > Len(ls) THEN "delete_lb" ELSE "delete_listener"

\* the list a describe call returns for the set S
Discovered_own(S) ==
    Ascending(S \cap {LB(1), Listener(1, 1), TG(1), TG(2), Inst(1), Inst(2)})
Discovered_spared(S) ==
    Ascending(S \ (Range(instance_ids_micro) \cup Range(instance_ids_large)
                   \cup {target_group_arn_cluster1, target_group_arn_cluster2,
                         load_balancer_arn, listener_arn}))
Discovered(S) == Ascending(S)

\* load_balancers = elb_v2_client.describe_load_balancers()['LoadBalancers']
DescribeLoadBalancers ==
    /\ pc = "lb_describe"
    /\ LET lst == Discovered(OfKind(acct, "lb")) IN
        /\ load_balancers' = lst
        /\ calls' = Append(calls, Call("describe_load_balancers", <<>>, "ok", lst))
    /\ idx' = 1
    /\ pc' = AfterLBs(load_balancers', 1)
    /\ UNCHANGED <<acct, terminated, tgBusy, otherSteps, err, listeners,
                   classic_load_balancers, target_groups, instance_ids, j,
                   run, start, quiet, report>>
    /\ UNCHANGED <<orchVars, otherVars, apartVars>>

\* listeners = elb_v2_client.describe_listeners(LoadBalancerArn=...)['Listeners']
DescribeListeners ==
    /\ pc = "describe_listeners"
    /\ LET lb == load_balancers[idx] IN
       \E res \in ProviderResults("describe_listeners", lb, acct, tgBusy) :
         IF res = "ok"
         THEN LET lst == Discovered(ListenersOf(acct, lb)) IN
                /\ listeners' = lst
                /\ j' = 1
                /\ calls' = Append(calls, Call("describe_listeners", <<lb>>, res, lst))
                /\ pc' = AfterListeners(lst, 1)
                /\ UNCHANGED err
         ELSE /\ calls' = Append(calls, Call("describe_listeners", <<lb>>, res, <<>>))
              /\ Raise(res)
              /\ UNCHANGED <<listeners, j>>
    /\ UNCHANGED <<acct, terminated, tgBusy, otherSteps, load_balancers,
                   classic_load_balancers, target_groups, instance_ids, idx,
                   run, start, quiet, report>>
    /\ UNCHANGED <<orchVars, otherVars, apartVars>>

\* elb_v2_client.delete_listener(ListenerArn=listener_arn)
DeleteListener ==
    /\ pc = "delete_listener"
    /\ LET l == listeners[j] IN
       \E res \in ProviderResults("delete_listener", l, acct, tgBusy) :
         /\ calls' = Append(calls, Call("delete_listener", <<l>>, res, <<>>))
         /\ IF res = "ok" \/ Caught("delete_listener", res)
            THEN /\ acct' = IF res = "ok" THEN Deleted(acct, l) ELSE acct
                 /\ j' = j + 1
                 /\ pc' = AfterListeners(listeners, j + 1)
                 /\ UNCHANGED err
            ELSE /\ Raise(res)
                 /\ UNCHANGED <<acct, j>>
    /\ UNCHANGED <<terminated, tgBusy, otherSteps, load_balancers, listeners,
                   classic_load_balancers, target_groups, instance_ids, idx,
                   run, start, quiet, report>>
    /\ UNCHANGED <<orchVars, otherVars, apartVars>>

\* elb_v2_client.delete_load_balancer(LoadBalancerArn=lb_arn)
DeleteLoadBalancer ==
    /\ pc = "delete_lb"
    /\ LET lb == load_balancers[idx] IN
       \E res \in ProviderResults("delete_load_balancer", lb, acct, tgBusy) :
         /\ calls' = Append(calls, Call("delete_load_balancer", <<lb>>, res, <<>>))
         /\ IF res = "ok" \/ Caught("delete_load_balancer", res)
            THEN /\ acct' = IF res = "ok" THEN Deleted(acct, lb) ELSE acct
                 /\ idx' = idx + 1
                 /\ pc' = AfterLBs(load_balancers, idx + 1)
                 /\ UNCHANGED err
            ELSE /\ Raise(res)
                 /\ UNCHANGED <<acct, idx>>
    /\ UNCHANGED <<terminated, tgBusy, otherSteps, load_balancers, listeners,
                   classic_load_balancers, target_groups, instance_ids, j,
                   run, start, quiet, report>>
    /\ UNCHANGED <<orchVars, otherVars, apartVars>>

\* classic_load_balancers = elb_client.describe_load_balancers()[...]
DescribeClassic ==
    /\ pc = "clb_describe"
    /\ LET lst == Discovered(OfKind(acct, "clb")) IN
        /\ classic_load_balancers' = lst
        /\ calls' = Append(calls, Call("describe_classic", <<>>, "ok", lst))
        /\ pc' = IF lst = <<>> THEN Return("lb_describe") ELSE "delete_clb"
    /\ idx' = 1
    /\ UNCHANGED <<acct, terminated, tgBusy, otherSteps, err, load_balancers,
                   listeners, target_groups, instance_ids, j, run, start,
                   quiet, report>>
    /\ UNCHANGED <<orchVars, otherVars, apartVars>>

\* elb_client.delete_load_balancer(LoadBalancerName=clb_name)
DeleteClassic ==
    /\ pc = "delete_clb"
    /\ LET clb == classic_load_balancers[idx] IN
       \E res \in ProviderResults("delete_classic", clb, acct, tgBusy) :
         /\ calls' = Append(calls, Call("delete_classic", <<clb>>, res, <<>>))
         /\ IF res = "ok" \/ Caught("delete_classic", res)
            THEN /\ acct' = IF res = "ok" THEN Deleted(acct, clb) ELSE acct
                 /\ idx' = idx + 1
                 /\ pc' = IF idx + 1 > Len(classic_load_balancers)
                          THEN Return("lb_describe") ELSE "delete_clb"
                 /\ UNCHANGED err
            ELSE /\ Raise(res)
                 /\ UNCHANGED <<acct, idx>>
    /\ UNCHANGED <<terminated, tgBusy, otherSteps, load_balancers, listeners,
                   classic_load_balancers, target_groups, instance_ids, j,
                   run, start, quiet, report>>
    /\ UNCHANGED <<orchVars, otherVars, apartVars>>

\* target_groups = elb_v2_client.describe_target_groups()['TargetGroups']
DescribeTargetGroups ==
    /\ pc = "tg_describe"
    /\ LET lst == Discovered(OfKind(acct, "tg")) IN
        /\ target_groups' = lst
        /\ calls' = Append(calls, Call("describe_target_groups", <<>>, "ok", lst))
        /\ pc' = AfterTargetGroup("ok", lst, 1)
    /\ idx' = 1
    /\ UNCHANGED <<acct, terminated, tgBusy, otherSteps, err, load_balancers,
                   listeners, classic_load_balancers, instance_ids, j, run,
                   start, quiet, report>>
    /\ UNCHANGED <<orchVars, otherVars, apartVars>>

\* try: elb_v2_client.delete_target_group(TargetGroupArn=tg_arn)
\* except ResourceInUseException: print(...)
DeleteTargetGroup ==
    /\ pc = "delete_tg"
    /\ LET tg == target_groups[idx] IN
       \E res \in ProviderResults("delete_target_group", tg, acct, tgBusy) :
         /\ calls' = Append(calls, Call("delete_target_group", <<tg>>, res, <<>>))
         /\ IF res = "ok" \/ Caught("delete_target_group", res)
            THEN /\ acct' = IF res = "ok" THEN Deleted(acct, tg) ELSE acct
                 /\ idx' = idx + 1
                 /\ pc' = AfterTargetGroup(res, target_groups, idx + 1)
                 /\ UNCHANGED err
            ELSE /\ Raise(res)
                 /\ UNCHANGED <<acct, idx>>
    /\ UNCHANGED <<terminated, tgBusy, otherSteps, load_balancers, listeners,
                   classic_load_balancers, target_groups, instance_ids, j,
                   run, start, quiet, report>>
    /\ UNCHANGED <<orchVars, otherVars, apartVars>>

\* the batches terminate_all_instances passes to terminate_instances
Batches_each(ids) == [p \in 1..Len(ids) |-> <<ids[p]>>]
Batches_always(ids) == <<ids>>
Batches_first(ids) == IF ids = <<>> THEN <<>> ELSE <<<<ids[1]>>>>
Batches(ids) == IF ids = <<>> THEN <<>> ELSE <<ids>>

\* instances = ec2_client.describe_instances()['Reservations'];
\* instance_ids = [...]; the else branch only prints
DescribeInstances ==
    /\ pc = "inst_describe"
    /\ LET lst == Discovered(OfKind(acct, "instance")) IN
        /\ instance_ids' = lst
        /\ calls' = Append(calls, Call("describe_instances", <<>>, "ok", lst))
        /\ pc' = IF Batches(lst) = <<>> THEN Return("inst_describe") ELSE "terminate"
        /\ report' = IF Batches(lst) = <<>> THEN None ELSE report
    /\ idx' = 1
    /\ UNCHANGED <<acct, terminated, tgBusy, otherSteps, err, load_balancers,
                   listeners, classic_load_balancers, target_groups, j, run,
                   start, quiet>>
    /\ UNCHANGED <<orchVars, otherVars, apartVars>>

\* ec2_client.terminate_instances(InstanceIds=instance_ids)
TerminateInstances ==
    /\ pc = "terminate"
    /\ LET batch == Batches(instance_ids)[idx] IN
       \E res \in TerminateResults(batch, acct) :
         /\ calls' = Append(calls, Call("terminate_instances", batch, res, <<>>))
         /\ IF res = "ok" \/ Caught("terminate_instances", res)
            THEN /\ terminated' = IF res = "ok" THEN terminated \cup Range(batch)
                                  ELSE terminated
                 /\ idx' = idx + 1
                 /\ pc' = IF idx + 1 > Len(Batches(instance_ids))
                          THEN Return("inst_describe") ELSE "terminate"
                 /\ report' = IF idx + 1 > Len(Batches(instance_ids))
                              THEN None ELSE report
                 /\ UNCHANGED err
            ELSE /\ Raise(res)
                 /\ UNCHANGED <<terminated, idx, report>>
    /\ UNCHANGED <<acct, tgBusy, otherSteps, load_balancers, listeners,
                   classic_load_balancers, target_groups, instance_ids, j,
                   run, start, quiet>>
    /\ UNCHANGED <<orchVars, otherVars, apartVars>>

\* the operator runs the teardown sequence again after it has returned
TeardownAgain ==
    /\ pc = "done"
    /\ run < MaxRuns
    /\ run' = run + 1
    /\ pc' = TeardownSequence[1]
    /\ err' = "none"
    /\ report' = Pending_report
    /\ calls' = <<>>
    /\ start' = acct
    /\ quiet' = IF \A p \in 1..Len(calls) : calls[p].arg = <<>> THEN quiet + 1 ELSE 0
    /\ load_balancers' = <<>>
    /\ listeners' = <<>>
    /\ classic_load_balancers' = <<>>
    /\ target_groups' = <<>>
    /\ instance_ids' = <<>>
    /\ idx' = 1
    /\ j' = 1
    /\ UNCHANGED <<acct, terminated, tgBusy, otherSteps>>
    /\ UNCHANGED <<orchVars, otherVars, apartVars>>

\* the resources the pass has discovered and not yet tried to delete
From(lst, p) == {lst[q] : q \in p..Len(lst)}
Pending ==
    CASE pc \in {"describe_listeners", "delete_lb"} -> From(load_balancers, idx)
      [] pc = "delete_listener" -> From(listeners, j) \cup From(load_balancers, idx)
      [] pc = "delete_clb" -> From(classic_load_balancers, idx)
      [] pc = "delete_tg" -> From(target_groups, idx)
      [] OTHER -> {}

\* Another operator on the same account removes a resource between its
\* discovery and its deletion.  (A removal before the discovery is a pass
\* from a smaller account; one after the deletion attempt changes nothing
\* the script reads.)
OtherOperator ==
    /\ otherSteps < MaxOther
    /\ \E h \in Pending \cap acct :
        acct' = Deleted(acct, h)
    /\ otherSteps' = otherSteps + 1
    /\ UNCHANGED <<terminated, tgBusy, pc, err, load_balancers,
                   listeners, classic_load_balancers, target_groups,
                   instance_ids, idx, j, calls, run, start, quiet, report>>
    /\ UNCHANGED <<orchVars, otherVars, apartVars>>

\* The accounts a pass may start from: of every kind the resources 1..n for
\* some n, each load balancer with its listeners 1..k.  (Which ids exist
\* makes no difference to the script; the other operator's removals lead to
\* the accounts with gaps.)
Account(nl, k, nc, nt, ni) ==
    UNION { {LB(m) : m \in 1..nl},
            UNION {{Listener(m, q) : q \in 1..k[m]} : m \in 1..nl},
            {CLB(m) : m \in 1..nc},
            {TG(m) : m \in 1..nt},
            {Inst(m) : m \in 1..ni} }

Accounts ==
    {Account(nl, k, nc, nt, ni) :
        nl \in 0..MaxLB, k \in [1..MaxLB -> 0..MaxListeners],
        nc \in 0..MaxCLB, nt \in 0..MaxTG, ni \in 0..MaxInst}

\* the script's globals before the script has assigned them
NoHandle == <<"none", 0, 0>>
OrchInit ==
    /\ steps = <<>>
    /\ instance_ids_micro = <<>>
    /\ instance_ids_large = <<>>
    /\ deployed = {}
    /\ target_group_arn_cluster1 = NoHandle
    /\ target_group_arn_cluster2 = NoHandle
    /\ load_balancer_arn = NoHandle
    /\ listener_arn = NoHandle
    /\ registered = {}
    /\ attempt = 0
    /\ erred = FALSE
    /\ last = "none"
    /\ pos = 1
    /\ slept = 0
    /\ health_status_cluster1 = FALSE
    /\ health_status_cluster2 = FALSE
    /\ securiy_group_id = NoHandle
    /\ faults = {}

\* the locals of terminate_resources.py before a pass
TeardownInit ==
    /\ err = "none"
    /\ load_balancers = <<>>
    /\ listeners = <<>>
    /\ classic_load_balancers = <<>>
    /\ target_groups = <<>>
    /\ instance_ids = <<>>
    /\ idx = 1
    /\ j = 1
    /\ calls = <<>>
    /\ run = 1
    /\ report = Pending_report

\* the teardown sequence invoked on its own, on any account
\* attach_volume_to_instance has not been called
AttachIdle ==
    /\ pc_attach = "idle"
    /\ attachment_state = "none"
    /\ polled = 0

\* the outcome of a call that has not been made
NotCalled == [kind |-> "pending", value |-> <<>>, error |-> "none"]

\* extract_lb_resource_from_arn has not been called
ArnIdle ==
    /\ full_arn = <<>>
    /\ extracted = NotCalled

\* the locals of the aggregation loop before the loop
AggLocals ==
    /\ aggregated_timestamps = <<>>
    /\ aggregated_values = <<>>
    /\ aggregated_data = <<>>
    /\ contributors = {}
    /\ metric_idx = 1
    /\ inst_idx = 1

\* the aggregation loop is not run
AggIdle ==
    /\ datapoints = <<>>
    /\ group_instance_ids = <<>>
    /\ pc_agg = "idle"
    /\ AggLocals

ApartInit == AttachIdle /\ ArnIdle /\ AggIdle

Init ==
    /\ acct \in Accounts
    /\ terminated = {}
    /\ tgBusy \in SUBSET OfKind(acct, "tg")
    /\ otherSteps = 0
    /\ pc = TeardownSequence[1]
    /\ start = acct
    /\ quiet = 0
    /\ key_file = "absent"
    /\ pc_other = "absent"
    /\ reaped = {}
    /\ TeardownInit
    /\ OrchInit
    /\ ApartInit

Teardown ==
    \/ DescribeLoadBalancers
    \/ DescribeListeners
    \/ DeleteListener
    \/ DeleteLoadBalancer
    \/ DescribeClassic
    \/ DeleteClassic
    \/ DescribeTargetGroups
    \/ DeleteTargetGroup
    \/ DescribeInstances
    \/ TerminateInstances

Next ==
    \/ Teardown
    \/ TeardownAgain
    \/ OtherOperator

vars == <<tdVars, orchVars, otherVars, apartVars>>

Spec == Init /\ [][Next]_vars

\* ------------------------------------------------------------ TP1/main.py
\* The orchestration script.  Every numbered section of the script is one
\* step; a section that raises ends the script where it stands.
max_retries == 10

\* the instances of the two clusters
MicroIds == [n \in 1..MaxMicro |-> Inst(n)]
LargeIds == [n \in 1..MaxLarge |-> Inst(MaxMicro + n)]

\* the variables no section of the script before the teardown touches
tdIdle == <<terminated, tgBusy, otherSteps, load_balancers, listeners,
            classic_load_balancers, target_groups, instance_ids, idx, j,
            calls, run, quiet, report, pc_other, reaped, apartVars>>
ids   == <<instance_ids_micro, instance_ids_large>>
arns  == <<target_group_arn_cluster1, target_group_arn_cluster2,
           load_balancer_arn, listener_arn>>
gates == <<attempt, erred, last, pos, slept, health_status_cluster1,
           health_status_cluster2>>
env   == <<securiy_group_id, key_file, faults>>

\* the section `phase` is over and the script goes on at `next`
Done_registerFirst(phase, next) ==
    /\ steps' = Append(steps, phase)
    /\ pc' = IF next = "start_instances" THEN "register_1" ELSE next
    /\ UNCHANGED err
Done(phase, next) ==
    /\ steps' = Append(steps, phase)
    /\ pc' = next
    /\ UNCHANGED err

\* the section raises
Abort(e) ==
    /\ Raise(e)
    /\ UNCHANGED steps

\* The operations that catch the provider's error, print it and return:
\* create_listener and register_instances.  Every other operation lets it
\* through or raises it again.
Swallows_ensure(op) ==
    op \in {"create_listener", "register_instances", "create_target_group"}
Swallows(op) == op \in {"create_listener", "register_instances"}

\* the operation `op` returns to the script when the provider answers `res`
Returns(op, res) ==
    res = "ok" \/ (res \in {"Other", "ClientError"} /\ Swallows(op))

\* the resource h exists and, if an instance, has not been terminated
Usable(h) == h \in acct /\ h \notin terminated

\* #1, #2: get_vpc, get_subnet_id, subnet_ids[0]
GetNetwork ==
    /\ pc = "get_network"
    /\ \E res \in {"ok", "Other", "TypeError"} :
         IF res = "ok" THEN Done("network", "create_security_group")
                       ELSE Abort(res)
    /\ UNCHANGED <<acct, start, ids, deployed, arns, registered, gates, tdIdle, env>>

\* create_security_group on the account S: the ID it hands back and the
\* account it leaves.  A group found by name is handed back as it is; a
\* group that is not found is created and then given its ingress rules.
CreateSecurityGroupOutcomes(S) ==
    IF SG(1) \in S
    THEN {[ret |-> SG(1), acct |-> S, res |-> "ok"],
          [ret |-> NoHandle, acct |-> S, res |-> "Other"]}
    ELSE {[ret |-> SG(1), acct |-> S \cup {SG(1), Ingress(1)}, res |-> "ok"],
          \* describe_security_groups or create_security_group fails
          [ret |-> NoHandle, acct |-> S, res |-> "Other"],
          \* authorize_security_group_ingress fails
          [ret |-> NoHandle, acct |-> S \cup {SG(1)}, res |-> "Other"]}

\* #3: create_security_group
CreateSecurityGroup ==
    /\ pc = "create_security_group"
    /\ \E o \in CreateSecurityGroupOutcomes(acct) :
         /\ acct' = o.acct
         /\ securiy_group_id' = o.ret
         /\ faults' = IF o.res = "Other" THEN faults \cup {"security_group"}
                                         ELSE faults
         /\ IF Returns("create_security_group", o.res)
            THEN Done("security_group", "create_key_pair")
            ELSE Abort(o.res)
    /\ UNCHANGED <<start, ids, deployed, arns, registered, gates, tdIdle,
                   key_file>>

\* the states of the local key file
KeyFileStates == {"absent", "writable", "readonly"}

\* create_key_pair on the account S with the local key file in state
\* `file`.  os.chmod on a file that is absent raises FileNotFoundError,
\* which no handler of the function catches; open(..., 'w') on a read-only
\* file raises PermissionError unless the script runs as root.
CreateKeyPairOutcomes(S, file) ==
    {[acct |-> S, file |-> file, res |-> "Other"]} \cup
    (IF KP(1) \in S
     THEN (IF file = "absent"
           THEN {[acct |-> S, file |-> file, res |-> "FileNotFoundError"]}
           ELSE {[acct |-> S, file |-> "readonly", res |-> "ok"]})
     ELSE {[acct |-> S \cup {KP(1)}, file |-> "readonly", res |-> "ok"]} \cup
          (IF file = "readonly"
           THEN {[acct |-> S \cup {KP(1)}, file |-> file,
                  res |-> "PermissionError"]}
           ELSE {}))

\* #4: create_key_pair
CreateKeyPair ==
    /\ pc = "create_key_pair"
    /\ \E o \in CreateKeyPairOutcomes(acct, key_file) :
         /\ acct' = o.acct
         /\ key_file' = o.file
         /\ faults' = IF o.res = "Other" THEN faults \cup {"key_pair"}
                                         ELSE faults
         /\ IF Returns("create_key_pair", o.res)
            THEN Done("key_pair", "create_instances_micro")
            ELSE Abort(o.res)
    /\ UNCHANGED <<start, ids, deployed, arns, registered, gates, tdIdle,
                   securiy_group_id>>

\* the attempts of wait_for_public_ip and of wait_for_ssh
retries_public_ip == 10
retries_ssh == 10

\* what a wait does with a poll that found the condition met or not, after
\* `polls` earlier polls and with a budget of `budget` polls
WaitOutcome(met, polls, budget) ==
    IF met THEN "met"
    ELSE IF polls + 1 >= budget THEN "exhausted" ELSE "again"

\* what a wait does once its attempts are used up: wait_for_public_ip
\* raises, wait_for_ssh returns False
OnExhaustion_raise(wait) == "raise"
OnExhaustion(wait) == IF wait = "public_ip" THEN "raise" ELSE "return"

\* the instances of the cluster whose section the script is in
ClusterIds ==
    IF pc \in {"public_ip_micro", "wait_ssh_micro", "setup_micro", "skip_micro"}
    THEN instance_ids_micro ELSE instance_ids_large

\* #5: create_instances for the t2.micro cluster
CreateInstancesMicro ==
    /\ pc = "create_instances_micro"
    /\ \E res \in {"ok", "Other"} :
         IF res = "ok"
         THEN /\ acct' = acct \cup Range(MicroIds)
              /\ instance_ids_micro' = MicroIds
              /\ pc' = "public_ip_micro"
              /\ UNCHANGED <<steps, err>>
         ELSE /\ Abort(res)
              /\ UNCHANGED <<acct, instance_ids_micro>>
    /\ UNCHANGED <<start, instance_ids_large, deployed, arns, registered,
                   gates, tdIdle, env>>

\* #5: create_instances for the t2.large cluster
CreateInstancesLarge ==
    /\ pc = "create_instances_large"
    /\ \E res \in {"ok", "Other"} :
         IF res = "ok"
         THEN /\ acct' = acct \cup Range(LargeIds)
              /\ instance_ids_large' = LargeIds
              /\ pc' = "public_ip_large"
              /\ UNCHANGED <<steps, err>>
         ELSE /\ Abort(res)
              /\ UNCHANGED <<acct, instance_ids_large>>
    /\ UNCHANGED <<start, instance_ids_micro, deployed, arns, registered,
                   gates, tdIdle, env>>

\* #5: get_public_ids, one poll of wait_for_public_ip per step, for the
\* instance at position `pos` of the cluster.  An address ends the wait for
\* this instance and the loop goes to the next one.
WaitForPublicIp ==
    /\ pc \in {"public_ip_micro", "public_ip_large"}
    /\ \E read \in {"no_ip", "Other"} \cup
                    (IF Usable(ClusterIds[pos]) THEN {"ip"} ELSE {}) :
         LET o == IF read = "Other" THEN "raise"
                  ELSE WaitOutcome(read = "ip", attempt, retries_public_ip)
             over == o = "met" \/ (o = "exhausted" /\ OnExhaustion("public_ip") = "return")
         IN  /\ attempt' = IF over THEN 0 ELSE attempt + 1
             /\ last' = IF over THEN "none" ELSE read
             /\ pos' = IF ~over THEN pos ELSE IF pos < Len(ClusterIds) THEN pos + 1 ELSE 1
             /\ IF over /\ pos = Len(ClusterIds)
                THEN IF pc = "public_ip_micro"
                     THEN Done("instances_micro", "create_instances_large")
                     ELSE Done("instances_large", "wait_ssh_micro")
                ELSE IF over \/ o = "again" THEN UNCHANGED <<pc, steps, err>>
                ELSE Abort(IF o = "raise" THEN "Other" ELSE "NoPublicIp")
    /\ UNCHANGED <<acct, start, ids, deployed, arns, registered, erred,
                   health_status_cluster1, health_status_cluster2, tdIdle, env,
                   slept>>

\* what client.connect can raise in wait_for_ssh: the exceptions of the
\* first three except clauses and, as "Exception", any other
SshErrors == {"NoValidConnectionsError", "AuthenticationException",
              "SSHException", "Exception"}

\* the except clauses of the loop of wait_for_ssh
CaughtInLoop_ssh(e) == e \in SshErrors \ {"Exception"}
CaughtInLoop(e) == e \in SshErrors

\* #6: setup_fastapi_app, one connection attempt of wait_for_ssh per step,
\* for the instance at position `pos` of the cluster.  A failed attempt is
\* followed by time.sleep(delay), whether or not another attempt is left.
WaitForSsh ==
    /\ pc \in {"wait_ssh_micro", "wait_ssh_large"}
    /\ \E e \in SshErrors \cup
                 (IF Usable(ClusterIds[pos]) THEN {"ok"} ELSE {}) :
         LET read == IF e = "ok" THEN "connected" ELSE "refused"
             o == WaitOutcome(read = "connected", attempt, retries_ssh)
             micro == pc = "wait_ssh_micro"
         IN  /\ attempt' = attempt + 1
             /\ last' = read
             /\ IF e # "ok" /\ ~CaughtInLoop(e)
                THEN Abort(e) /\ UNCHANGED slept
                ELSE /\ slept' = IF read = "refused" THEN slept + 1 ELSE slept
                     /\ IF o = "again" THEN UNCHANGED <<pc, steps, err>>
                        ELSE IF o = "met"
                        THEN /\ pc' = IF micro THEN "setup_micro"
                                               ELSE "setup_large"
                             /\ UNCHANGED <<steps, err>>
                        ELSE IF OnExhaustion("ssh") = "raise"
                        THEN Abort("Unreachable")
                        ELSE /\ pc' = IF micro THEN "skip_micro"
                                               ELSE "skip_large"
                             /\ UNCHANGED <<steps, err>>
    /\ UNCHANGED <<acct, start, ids, deployed, arns, registered, erred, pos,
                   health_status_cluster1, health_status_cluster2, tdIdle, env>>

\* #6: the rest of setup_fastapi_app for a t2.micro instance, and the loop.
\* An instance that never accepted SSH is left without the payload and the
\* loop goes on; an error of the SSH session itself is raised.
DeployMicro ==
    /\ pc \in {"setup_micro", "skip_micro"}
    /\ \E res \in IF pc = "skip_micro" THEN {"skipped"}
                  ELSE IF Usable(instance_ids_micro[pos]) THEN {"ok", "Other"}
                  ELSE {"Other"} :
         /\ deployed' = IF res = "ok" THEN deployed \cup {instance_ids_micro[pos]}
                                      ELSE deployed
         /\ IF res = "Other"
            THEN Abort(res) /\ UNCHANGED <<pos, attempt, last, slept>>
            ELSE /\ attempt' = 0
                 /\ last' = "none"
                 /\ slept' = 0
                 /\ IF pos < Len(instance_ids_micro)
                    THEN /\ pos' = pos + 1
                         /\ pc' = "wait_ssh_micro"
                         /\ UNCHANGED <<steps, err>>
                    ELSE /\ pos' = 1
                         /\ Done("deploy_micro", "wait_ssh_large")
    /\ UNCHANGED <<acct, start, ids, arns, registered, erred,
                   health_status_cluster1, health_status_cluster2, tdIdle, env>>

\* #6: the same for a t2.large instance
DeployLarge ==
    /\ pc \in {"setup_large", "skip_large"}
    /\ \E res \in IF pc = "skip_large" THEN {"skipped"}
                  ELSE IF Usable(instance_ids_large[pos]) THEN {"ok", "Other"}
                  ELSE {"Other"} :
         /\ deployed' = IF res = "ok" THEN deployed \cup {instance_ids_large[pos]}
                                      ELSE deployed
         /\ IF res = "Other"
            THEN Abort(res) /\ UNCHANGED <<pos, attempt, last, slept>>
            ELSE /\ attempt' = 0
                 /\ last' = "none"
                 /\ slept' = 0
                 /\ IF pos < Len(instance_ids_large)
                    THEN /\ pos' = pos + 1
                         /\ pc' = "wait_ssh_large"
                         /\ UNCHANGED <<steps, err>>
                    ELSE /\ pos' = 1
                         /\ Done("deploy_large", "create_target_group_1")
    /\ UNCHANGED <<acct, start, ids, arns, registered, erred,
                   health_status_cluster1, health_status_cluster2, tdIdle, env>>

\* create_target_group(group_name) for the group tg: what it returns, the
\* account it leaves and whether it raises.  A group of that name that
\* exists is deleted and nothing is created in its place: the function
\* falls off its end and hands back None.
CreateTargetGroupOutcomes_sweep(tg, S, busy) ==
    IF OfKind(S, "tg") # {}
    THEN {[ret |-> NoHandle, acct |-> S \ OfKind(S, "tg"), res |-> "ok"]}
    ELSE {[ret |-> tg, acct |-> S \cup {tg}, res |-> "ok"],
          [ret |-> NoHandle, acct |-> S, res |-> "Other"]}
CreateTargetGroupOutcomes(tg, S, busy) ==
    IF tg \in S
    THEN {[ret |-> NoHandle, acct |-> IF r = "ok" THEN S \ {tg} ELSE S, res |-> r] :
             r \in ProviderResults("delete_target_group", tg, S, busy)}
    ELSE {[ret |-> tg, acct |-> S \cup {tg}, res |-> "ok"],
          [ret |-> NoHandle, acct |-> S, res |-> "Other"]}

\* #6: create_target_group for cluster1
CreateTargetGroup1 ==
    /\ pc = "create_target_group_1"
    /\ \E o \in CreateTargetGroupOutcomes(TG(1), acct, tgBusy) :
         /\ acct' = o.acct
         /\ target_group_arn_cluster1' = o.ret
         /\ faults' = IF o.res = "Other"
                      THEN faults \cup {"target_group_1"} ELSE faults
         /\ IF Returns("create_target_group", o.res)
            THEN Done("target_group_1", "create_target_group_2")
            ELSE Abort(o.res)
    /\ UNCHANGED <<start, ids, deployed, target_group_arn_cluster2,
                   load_balancer_arn, listener_arn, registered, gates, tdIdle,
                   securiy_group_id, key_file>>

\* #6: create_target_group for cluster2
CreateTargetGroup2 ==
    /\ pc = "create_target_group_2"
    /\ \E o \in CreateTargetGroupOutcomes(TG(2), acct, tgBusy) :
         /\ acct' = o.acct
         /\ target_group_arn_cluster2' = o.ret
         /\ faults' = IF o.res = "Other"
                      THEN faults \cup {"target_group_2"} ELSE faults
         /\ IF Returns("create_target_group", o.res)
            THEN Done("target_group_2", "create_load_balancer")
            ELSE Abort(o.res)
    /\ UNCHANGED <<start, ids, deployed, target_group_arn_cluster1,
                   load_balancer_arn, listener_arn, registered, gates, tdIdle,
                   securiy_group_id, key_file>>

\* #7: create_load_balancer and the reading of its ARN
CreateLoadBalancer ==
    /\ pc = "create_load_balancer"
    /\ \E res \in {"ok", "Other"} :
         /\ acct' = IF res = "ok" THEN acct \cup {LB(1)} ELSE acct
         /\ load_balancer_arn' = IF res = "ok" THEN LB(1) ELSE NoHandle
         /\ IF res = "ok" THEN Done("load_balancer", "create_listener")
                          ELSE Abort(res)
    /\ UNCHANGED <<start, ids, deployed, target_group_arn_cluster1,
                   target_group_arn_cluster2, listener_arn, registered,
                   gates, tdIdle, env>>

\* #8: create_listener.  A ClientError is printed and None handed back; a
\* target group ARN of None is refused before the call is sent, which is
\* no ClientError.
CreateListener ==
    /\ pc = "create_listener"
    /\ \E res \in IF target_group_arn_cluster1 = NoHandle
                  THEN {"ParamValidation"}
                  ELSE IF Usable(load_balancer_arn)
                          /\ Usable(target_group_arn_cluster1)
                  THEN {"ok", "ClientError"} ELSE {"ClientError"} :
         /\ acct' = IF res = "ok" THEN acct \cup {Listener(1, 1)} ELSE acct
         /\ listener_arn' = IF res = "ok" THEN Listener(1, 1) ELSE NoHandle
         /\ faults' = IF res = "ClientError" THEN faults \cup {"listener"}
                                             ELSE faults
         /\ IF Returns("create_listener", res)
            THEN Done("listener", "create_rule_1") ELSE Abort(res)
    /\ UNCHANGED <<start, ids, deployed, target_group_arn_cluster1,
                   target_group_arn_cluster2, load_balancer_arn, registered,
                   gates, tdIdle, securiy_group_id, key_file>>

\* what create_rule does with these arguments
CreateRuleResults_lenient(l, tg) == {"ok", "Other"}
CreateRuleResults(l, tg) ==
    IF l = NoHandle \/ tg = NoHandle THEN {"ParamValidation"}
    ELSE IF Usable(l) /\ Usable(tg) THEN {"ok", "Other"}
    ELSE {"Other"}

\* #9: create_rule for /cluster1
CreateRule1 ==
    /\ pc = "create_rule_1"
    /\ \E res \in CreateRuleResults(listener_arn, target_group_arn_cluster1) :
         IF res = "ok" THEN Done("rule_1", "create_rule_2") ELSE Abort(res)
    /\ UNCHANGED <<acct, start, ids, deployed, arns, registered, gates, tdIdle, env>>

\* #9: create_rule for /cluster2
CreateRule2 ==
    /\ pc = "create_rule_2"
    /\ \E res \in CreateRuleResults(listener_arn, target_group_arn_cluster2) :
         IF res = "ok" THEN Done("rule_2", "start_instances") ELSE Abort(res)
    /\ UNCHANGED <<acct, start, ids, deployed, arns, registered, gates, tdIdle, env>>

\* #10: start_instances for both clusters and the instance_running waiter
StartInstances ==
    /\ pc = "start_instances"
    /\ \E res \in {"Other"} \cup
                   (IF \A h \in Range(instance_ids_micro)
                               \cup Range(instance_ids_large) : Usable(h)
                    THEN {"ok"} ELSE {}) :
         IF res = "ok" THEN Done("start", "register_1") ELSE Abort(res)
    /\ UNCHANGED <<acct, start, ids, deployed, arns, registered, gates, tdIdle, env>>

\* register_instances: the registrations it leaves, and whether the
\* provider answered with an error.  Every error is printed and swallowed,
\* a target group ARN of None (refused before the call is sent) included.
RegisterOutcomes_deployed(tg, lst, reg) ==
    IF tg = NoHandle THEN {[reg |-> reg, fault |-> FALSE]}
    ELSE {[reg |-> reg, fault |-> TRUE],
          [reg |-> reg \cup {<<tg, lst[p]>> :
                                p \in {q \in 1..Len(lst) : lst[q] \in deployed}},
           fault |-> FALSE]}
RegisterOutcomes(tg, lst, reg) ==
    IF tg = NoHandle THEN {[reg |-> reg, fault |-> FALSE]}
    ELSE {[reg |-> reg, fault |-> TRUE]} \cup
         (IF Usable(tg) /\ \A p \in 1..Len(lst) : Usable(lst[p])
          THEN {[reg |-> reg \cup {<<tg, lst[p]>> : p \in 1..Len(lst)},
                 fault |-> FALSE]}
          ELSE {})

\* #11: register_instances for cluster1
Register1 ==
    /\ pc = "register_1"
    /\ \E o \in RegisterOutcomes(target_group_arn_cluster1,
                                  instance_ids_micro, registered) :
         /\ registered' = o.reg
         /\ faults' = IF o.fault THEN faults \cup {"register_1"} ELSE faults
         /\ IF o.fault /\ ~Swallows("register_instances")
            THEN Abort("Other") ELSE Done("register_1", "register_2")
    /\ UNCHANGED <<acct, start, ids, deployed, arns, gates, tdIdle,
                   securiy_group_id, key_file>>

\* #11: register_instances for cluster2
Register2 ==
    /\ pc = "register_2"
    /\ \E o \in RegisterOutcomes(target_group_arn_cluster2,
                                  instance_ids_large, registered) :
         /\ registered' = o.reg
         /\ faults' = IF o.fault THEN faults \cup {"register_2"} ELSE faults
         /\ IF o.fault /\ ~Swallows("register_instances")
            THEN Abort("Other") ELSE Done("register_2", "gate_1")
    /\ UNCHANGED <<acct, start, ids, deployed, arns, gates, tdIdle,
                   securiy_group_id, key_file>>

\* The registered targets of the group tg.
Targets(tg, reg) == {r[2] : r \in {q \in reg : q[1] = tg}}

\* One poll of wait_for_target_group_health on the group tg: the reads it
\* can obtain.  The fetch of the snapshot may fail ("error"), and does fail
\* for a group that cannot be described.  A target answers the health check
\* only if the payload runs on it, and may still be found unhealthy; a
\* snapshot without targets is healthy.
PollResults(tg, S, reg, dep) ==
    {"error"} \cup
    (IF tg \notin S THEN {}
     ELSE (IF Targets(tg, reg) \subseteq dep THEN {"healthy"} ELSE {})
          \cup (IF Targets(tg, reg) # {} THEN {"unhealthy"} ELSE {}))

\* what the gate does with this read, after `polls` earlier polls and with
\* a budget of `budget` polls
GateOutcome_late(read, polls, budget) ==
    IF polls + 1 >= budget THEN (IF read = "healthy" THEN "Ready" ELSE "TimedOut")
    ELSE "again"
GateOutcome_more(read, polls, budget) ==
    IF read = "healthy" THEN "Ready"
    ELSE IF polls >= budget THEN "TimedOut" ELSE "again"
GateOutcome_strict(read, polls, budget) ==
    IF read = "healthy" /\ polls > 0 THEN "Ready"
    ELSE IF polls + 1 >= budget THEN "TimedOut" ELSE "again"
GateOutcome_fatal(read, polls, budget) ==
    IF read = "healthy" THEN "Ready"
    ELSE IF read = "error" \/ polls + 1 >= budget THEN "TimedOut" ELSE "again"
GateOutcome(read, polls, budget) ==
    IF read = "healthy" THEN "Ready"
    ELSE IF polls + 1 >= budget THEN "TimedOut" ELSE "again"

\* the truth value the script sees in the gate's result
Truthy(o) == o = "Ready"

\* #12.a: wait_for_target_group_health for cluster1, one poll per step.
\* At "gate_1" the function is being called and its locals are fresh; at
\* "gate_1_wait" it sleeps for `delay` between two polls.
Gate1 ==
    /\ pc \in {"gate_1", "gate_1_wait"}
    /\ \E read \in PollResults(target_group_arn_cluster1, acct, registered,
                               {h \in deployed : Usable(h)}) :
         LET polls == IF pc = "gate_1" THEN 0 ELSE attempt
             o == GateOutcome(read, polls, max_retries)
         IN  /\ attempt' = polls + 1
             /\ erred' = ((pc = "gate_1_wait" /\ erred) \/ read = "error")
             /\ last' = read
             /\ IF o = "again"
                THEN /\ pc' = "gate_1_wait"
                     /\ UNCHANGED <<err, steps, health_status_cluster1>>
                ELSE /\ health_status_cluster1' = Truthy(o)
                     /\ Done("gate_1", "gate_2")
    /\ UNCHANGED <<acct, start, ids, deployed, arns, registered,
                   health_status_cluster2, pos, tdIdle, env, slept>>

\* #12.a: wait_for_target_group_health for cluster2
Gate2 ==
    /\ pc \in {"gate_2", "gate_2_wait"}
    /\ \E read \in PollResults(target_group_arn_cluster2, acct, registered,
                               {h \in deployed : Usable(h)}) :
         LET polls == IF pc = "gate_2" THEN 0 ELSE attempt
             o == GateOutcome(read, polls, max_retries)
         IN  /\ attempt' = polls + 1
             /\ erred' = ((pc = "gate_2_wait" /\ erred) \/ read = "error")
             /\ last' = read
             /\ IF o = "again"
                THEN /\ pc' = "gate_2_wait"
                     /\ UNCHANGED <<err, steps, health_status_cluster2>>
                ELSE /\ health_status_cluster2' = Truthy(o)
                     /\ Done("gate_2", "benchmark")
    /\ UNCHANGED <<acct, start, ids, deployed, arns, registered,
                   health_status_cluster1, pos, tdIdle, env, slept>>

\* if health_status_cluster1 and health_status_cluster2
RunBenchmark_either(h1, h2) == h1 \/ h2
RunBenchmark(h1, h2) == h1 /\ h2

\* #12.b: execute_benchmark_script_on_instance, under the condition.  The
\* locals of the gate are gone by now.
Benchmark ==
    /\ pc = "benchmark"
    /\ IF RunBenchmark(health_status_cluster1, health_status_cluster2)
       THEN \E res \in {"ok", "Other"} :
              IF res = "ok" THEN Done("benchmark", "metrics") ELSE Abort(res)
       ELSE /\ pc' = "metrics"
            /\ UNCHANGED <<steps, err>>
    /\ attempt' = 0
    /\ erred' = FALSE
    /\ last' = "none"
    /\ UNCHANGED <<acct, start, ids, deployed, arns, registered, pos,
                   health_status_cluster1, health_status_cluster2, tdIdle, env, slept>>

\* the target groups of the script, which #13 looks up by name
NamedGroups == {TG(1), TG(2)}

\* #13: the CloudWatch metrics of the instances of each target group found
\* by name, and their plots.  Every lookup swallows its errors; with no
\* group found the plotting loop reads a key that was never set.
Metrics ==
    /\ pc = "metrics"
    /\ \E found \in SUBSET (NamedGroups \cap acct), res \in {"ok", "Other"} :
         IF found = {} THEN Abort("KeyError")
         ELSE IF res = "ok" THEN Done("metrics", "lb_metrics") ELSE Abort(res)
    /\ UNCHANGED <<acct, start, ids, deployed, arns, registered, gates, tdIdle, env>>

\* #14: the request count of the load balancer and its plot; #15 follows
LoadBalancerMetrics ==
    /\ pc = "lb_metrics"
    /\ \E res \in {"ok", "Other"} :
         IF res = "ok" THEN Done("lb_metrics", TeardownSequence[1])
                       ELSE Abort(res)
    /\ start' = acct
    /\ UNCHANGED <<acct, ids, deployed, arns, registered, gates, tdIdle, env>>

Orchestrate ==
    \/ GetNetwork
    \/ CreateSecurityGroup
    \/ CreateKeyPair
    \/ CreateInstancesMicro
    \/ CreateInstancesLarge
    \/ WaitForPublicIp
    \/ WaitForSsh
    \/ DeployMicro
    \/ DeployLarge
    \/ CreateTargetGroup1
    \/ CreateTargetGroup2
    \/ CreateLoadBalancer
    \/ CreateListener
    \/ CreateRule1
    \/ CreateRule2
    \/ StartInstances
    \/ Register1
    \/ Register2
    \/ Gate1
    \/ Gate2
    \/ Benchmark
    \/ Metrics
    \/ LoadBalancerMetrics

\* The script run from its first line, on an account that may hold target
\* groups and classic load balancers from before.
InitMain ==
    /\ \E nc \in 0..MaxCLB, nt \in 0..MaxTG,
          sg \in {{}, {SG(1)}, {SG(1), Ingress(1)}}, kp \in {{}, {KP(1)}} :
         acct = Account(0, [n \in 1..MaxLB |-> 0], nc, nt, 0) \cup sg \cup kp
    /\ key_file \in KeyFileStates
    /\ pc_other = "absent"
    /\ reaped = {}
    /\ terminated = {}
    /\ tgBusy \in SUBSET OfKind(acct, "tg")
    /\ otherSteps = 0
    /\ pc = "get_network"
    /\ start = acct
    /\ quiet = 0
    /\ TeardownInit
    /\ OrchInit
    /\ ApartInit

NextMain ==
    \/ Orchestrate
    \/ Teardown
    \/ OtherOperator

SpecOrch == InitMain /\ [][NextMain]_vars

\* ------------------------------------------------ a second run's teardown
\* The teardown sequence of a second operator run, on the same account and
\* while the script runs.  Each of its three functions is one step: it
\* describes and deletes without the script acting in between.

\* the target groups a live listener of the script forwards to
Referenced ==
    IF Usable(listener_arn)
    THEN ({target_group_arn_cluster1} \cup
          (IF "rule_2" \in Range(steps) THEN {target_group_arn_cluster2}
                                        ELSE {})) \ {NoHandle}
    ELSE {}

\* what the second run's teardown leaves alone
otherIdle == <<tgBusy, otherSteps, pc, err, load_balancers, listeners,
               classic_load_balancers, target_groups, instance_ids, idx, j,
               calls, run, start, quiet, report, apartVars>>

\* delete_all_load_balancers() of the second run: the listeners of every
\* load balancer, the load balancer, then the classic load balancers
OtherDeleteAllLoadBalancers ==
    /\ pc_other = "lb_describe"
    /\ LET lbs  == Discovered(OfKind(acct, "lb"))
           clbs == Discovered(OfKind(acct, "clb"))
           gone == UNION {{lbs[p]} \cup Range(Discovered(ListenersOf(acct, lbs[p]))) :
                            p \in 1..Len(lbs)} \cup Range(clbs)
       IN  \E res \in {"ok"} \cup
                      UNION {ProviderResults("delete_load_balancer", h, acct, {}) :
                               h \in Range(lbs) \cup Range(clbs)} :
             IF res = "ok"
             THEN /\ acct' = acct \ gone
                  /\ reaped' = reaped \cup gone
                  /\ pc_other' = Return("lb_describe")
             ELSE /\ pc_other' = "raised"
                  /\ UNCHANGED <<acct, reaped>>
    /\ UNCHANGED <<terminated, otherIdle, orchVars>>

\* delete_all_target_groups() of the second run: a group in use is skipped
OtherDeleteAllTargetGroups ==
    /\ pc_other = "tg_describe"
    /\ LET tgs  == Discovered(OfKind(acct, "tg"))
           answers(h) == ProviderResults("delete_target_group", h, acct,
                                         tgBusy \cup Referenced) \ {"Other"}
           gone == {h \in Range(tgs) : "ok" \in answers(h)}
           handled == \A h \in Range(tgs) :
                         \A r \in answers(h) :
                            r = "ok" \/ Caught("delete_target_group", r)
       IN  \E res \in (IF tgs = <<>> THEN {} ELSE {"Other"})
                      \cup (IF handled THEN {"ok"} ELSE {"InUse"}) :
             IF res = "ok"
             THEN /\ acct' = acct \ gone
                  /\ reaped' = reaped \cup gone
                  /\ pc_other' = Return("tg_describe")
             ELSE /\ pc_other' = "raised"
                  /\ UNCHANGED <<acct, reaped>>
    /\ UNCHANGED <<terminated, otherIdle, orchVars>>

\* terminate_all_instances() of the second run
OtherTerminateAllInstances ==
    /\ pc_other = "inst_describe"
    /\ LET lst == Discovered(OfKind(acct, "instance")) IN
         IF Batches(lst) = <<>>
         THEN /\ pc_other' = Return("inst_describe")
              /\ UNCHANGED <<terminated, reaped>>
         ELSE \E res \in TerminateResults(lst, acct) :
                IF res = "ok"
                THEN /\ terminated' = terminated \cup Range(lst)
                     /\ reaped' = reaped \cup Range(lst)
                     /\ pc_other' = Return("inst_describe")
                ELSE /\ pc_other' = "raised"
                     /\ UNCHANGED <<terminated, reaped>>
    /\ UNCHANGED <<acct, otherIdle, orchVars>>

OtherTeardown ==
    \/ OtherDeleteAllLoadBalancers
    \/ OtherDeleteAllTargetGroups
    \/ OtherTerminateAllInstances

\* the script starts on an empty account while the second run's teardown
\* is about to begin
InitTwo ==
    /\ acct = {}
    /\ terminated = {}
    /\ tgBusy = {}
    /\ otherSteps = 0
    /\ pc = "get_network"
    /\ start = acct
    /\ quiet = 0
    /\ key_file = "absent"
    /\ pc_other = TeardownSequence[1]
    /\ reaped = {}
    /\ TeardownInit
    /\ OrchInit
    /\ ApartInit

\* the script up to its own teardown, and the teardown of the second run
NextTwo ==
    \/ Orchestrate
    \/ OtherTeardown

SpecTwo == InitTwo /\ [][NextTwo]_vars

\* ------------------------------------------------------ nothing running
\* neither script runs: the state of their variables in the specifications
\* of a single function
ScriptsIdle ==
    /\ acct = {}
    /\ terminated = {}
    /\ tgBusy = {}
    /\ otherSteps = 0
    /\ pc = "done"
    /\ start = acct
    /\ quiet = 0
    /\ key_file = "absent"
    /\ pc_other = "absent"
    /\ reaped = {}
    /\ TeardownInit
    /\ OrchInit

scriptVars == <<tdVars, orchVars, otherVars>>
besidesAttach == <<scriptVars, arnVars, aggVars>>
besidesArn == <<scriptVars, attachVars, aggVars>>
besidesAgg == <<scriptVars, attachVars, arnVars>>

\* ------------------------------------------- TP2/create_instances.py
\* attach_volume_to_instance: ec2.attach_volume, then a loop that describes
\* the volume and sleeps 5 seconds until the attachment reads 'attached'.

\* the poll counter after one more poll
Counted(n) == IF n < MaxPolls THEN n + 1 ELSE n

\* ec2.attach_volume(VolumeId=..., InstanceId=..., Device=...)
AttachVolume ==
    /\ pc_attach = "attach_volume"
    /\ \E res \in {"ok", "Other"} :
         IF res = "ok"
         THEN /\ attachment_state' = "attaching"
              /\ pc_attach' = "describe_volumes"
         ELSE /\ pc_attach' = "raised"
              /\ UNCHANGED attachment_state
    /\ UNCHANGED <<polled, besidesAttach>>

\* where the loop goes with the attachment state it has read
AfterPoll(state) == IF state = "attached" THEN "returned" ELSE "sleep"

\* volume_description = ec2.describe_volumes(VolumeIds=[volume_id]);
\* attachment_state = ...['Attachments'][0]['State'] and the test on it.
\* Without an attachment the list is empty and the index raises.
DescribeVolumes ==
    /\ pc_attach = "describe_volumes"
    /\ polled' = Counted(polled)
    /\ \E res \in {"ok", "Other"} :
         pc_attach' = IF res = "Other" \/ attachment_state = "none"
                      THEN "raised"
                      ELSE AfterPoll(attachment_state)
    /\ UNCHANGED <<attachment_state, besidesAttach>>

\* time.sleep(5)
SleepBeforePoll ==
    /\ pc_attach = "sleep"
    /\ pc_attach' = "describe_volumes"
    /\ UNCHANGED <<attachment_state, polled, besidesAttach>>

\* the provider carries the attachment on, or drops it
VolumeProgress ==
    /\ pc_attach \in {"describe_volumes", "sleep"}
    /\ attachment_state \in {"attaching", "busy"}
    /\ attachment_state' \in {"attached", "busy", "attaching", "none"}
                              \ {attachment_state}
    /\ UNCHANGED <<pc_attach, polled, besidesAttach>>

AttachVolumeToInstance ==
    \/ AttachVolume
    \/ DescribeVolumes
    \/ SleepBeforePoll

InitAttach ==
    /\ ScriptsIdle
    /\ ArnIdle
    /\ AggIdle
    /\ pc_attach = "attach_volume"
    /\ attachment_state = "none"
    /\ polled = 0

NextAttach ==
    \/ AttachVolumeToInstance
    \/ VolumeProgress

\* the function goes on as long as it has a statement to execute; the
\* provider need not do anything
SpecAttach ==
    InitAttach /\ [][NextAttach]_vars /\ WF_vars(AttachVolumeToInstance)

\* ------------------------------------------- cloudwatch_loadbalancer.py
\* the characters an ARN is made of here: two letters and the separator
ArnChars == {"a", "b", "/"}
Arns == UNION {[1..n -> ArnChars] : n \in 0..MaxArnLen}

\* full_arn.split('/'): the parts between the separators, empty parts
\* included
RECURSIVE Split(_)
Split(str) ==
    IF "/" \notin Range(str) THEN <<str>>
    ELSE LET p == CHOOSE q \in 1..Len(str) :
                     str[q] = "/" /\ \A r \in 1..(q - 1) : str[r] # "/"
         IN  <<SubSeq(str, 1, p - 1)>> \o Split(SubSeq(str, p + 1, Len(str)))

\* the number of parts the function asks for before it reads them
parts_required == 3

\* lst[i] of a Python list, i counted from 0: whether it exists
HasItem(lst, i) == i < Len(lst)

\* extract_lb_resource_from_arn(full_arn)
ExtractLbResourceFromArn(arn) ==
    LET arn_parts == Split(arn) IN
    IF Len(arn_parts) >= parts_required
    THEN IF HasItem(arn_parts, 1) /\ HasItem(arn_parts, 2) /\ HasItem(arn_parts, 3)
         THEN [kind |-> "return",
               value |-> arn_parts[2] \o <<"/">> \o arn_parts[3] \o <<"/">>
                         \o arn_parts[4],
               error |-> "none"]
         ELSE [kind |-> "raise", value |-> <<>>, error |-> "IndexError"]
    ELSE [kind |-> "raise", value |-> <<>>, error |-> "ValueError"]

\* the call
CallExtract ==
    /\ extracted = NotCalled
    /\ extracted' = ExtractLbResourceFromArn(full_arn)
    /\ UNCHANGED <<full_arn, besidesArn>>

InitArn ==
    /\ ScriptsIdle
    /\ AttachIdle
    /\ AggIdle
    /\ full_arn \in Arns
    /\ extracted = NotCalled

NextArn == CallExtract

SpecArn == InitArn /\ [][NextArn]_vars

\* ------------------------------------- TP1/main.py, #13: the aggregation
\* The loop over the metrics and the instances of one target group.

\* the metrics, in the order of the loop
MetricNames == <<"CPUUtilization", "NetworkIn", "NetworkOut">>

\* the Average CloudWatch holds for instance i at timestamp t
Average(i, t) == 6 * i + t
\* what CloudWatch may hold for instance i and one metric: nothing, or two
\* datapoints of one of two periods
PointSets(i) ==
    <<{}, {<<1, Average(i, 1)>>, <<2, Average(i, 2)>>},
          {<<2, Average(i, 2)>>, <<3, Average(i, 3)>>}>>

\* sorted(zip(timestamps, values), key=lambda x: x[0]) on the datapoints
SortedByTimestamp(points) ==
    CHOOSE seq \in [1..Cardinality(points) -> points] :
        /\ Range(seq) = points
        /\ \A p, q \in 1..Cardinality(points) : p < q => seq[p][1] < seq[q][1]

\* get_ec2_metrics(instance_id, metric_name): the two lists it returns.  A
\* call that fails returns two empty lists, like one without datapoints.
GetEc2Metrics(points) ==
    LET sorted_data == SortedByTimestamp(points) IN
    [timestamps |-> [p \in 1..Len(sorted_data) |-> sorted_data[p][1]],
     values     |-> [p \in 1..Len(sorted_data) |-> sorted_data[p][2]]]

\* [sum(x) for x in zip(a, b)]
ZipSum(a, b) ==
    [p \in 1..(IF Len(a) < Len(b) THEN Len(a) ELSE Len(b)) |-> a[p] + b[p]]

\* what the sums are divided by
Divisor(targets, contributing) == Len(targets)

\* x / d, kept as the fraction <<x, d>>
Divided(values, d) == [p \in 1..Len(values) |-> <<values[p], d>>]

\* the body of `for instance_id in instance_ids` for one instance
FetchInstanceMetrics ==
    /\ pc_agg = "fetch"
    /\ LET got == GetEc2Metrics(datapoints[<<inst_idx, metric_idx>>])
           timestamps == got.timestamps
           values == got.values
           reference == IF aggregated_timestamps = <<>> THEN timestamps
                        ELSE aggregated_timestamps
       IN  IF timestamps # <<>> /\ values # <<>>
           THEN /\ aggregated_timestamps' = reference
                /\ IF reference = timestamps
                   THEN /\ aggregated_values' =
                              IF aggregated_values = <<>> THEN values
                              ELSE ZipSum(aggregated_values, values)
                        /\ contributors' = contributors \cup {inst_idx}
                   ELSE UNCHANGED <<aggregated_values, contributors>>
           ELSE UNCHANGED <<aggregated_timestamps, aggregated_values,
                            contributors>>
    /\ inst_idx' = inst_idx + 1
    /\ pc_agg' = IF inst_idx = Len(group_instance_ids) THEN "store" ELSE "fetch"
    /\ UNCHANGED <<datapoints, group_instance_ids, aggregated_data,
                   metric_idx, besidesAgg>>

\* the statements after the loop over the instances: the division and the
\* entry of aggregated_data, then the next metric
StoreMetric ==
    /\ pc_agg = "store"
    /\ aggregated_data' =
          Append(aggregated_data,
                 [timestamps |-> aggregated_timestamps,
                  values |-> IF aggregated_values # <<>>
                             THEN Divided(aggregated_values,
                                          Divisor(group_instance_ids,
                                                  contributors))
                             ELSE <<>>,
                  contributors |-> contributors])
    /\ aggregated_values' = <<>>
    /\ contributors' = {}
    /\ inst_idx' = 1
    /\ metric_idx' = IF metric_idx < Len(MetricNames) THEN metric_idx + 1
                     ELSE metric_idx
    /\ pc_agg' = IF metric_idx < Len(MetricNames) THEN "fetch" ELSE "done"
    /\ UNCHANGED <<datapoints, group_instance_ids, aggregated_timestamps,
                   besidesAgg>>

\* the loop is entered for a target group with at least one instance
InitAgg ==
    /\ ScriptsIdle
    /\ AttachIdle
    /\ ArnIdle
    /\ \E n \in 1..MaxTargets :
         /\ group_instance_ids = [i \in 1..n |-> Inst(i)]
         /\ \E held \in [(1..n) \X (1..Len(MetricNames)) -> 1..3] :
               datapoints = [x \in (1..n) \X (1..Len(MetricNames)) |->
                                PointSets(x[1])[held[x]]]
    /\ pc_agg = "fetch"
    /\ AggLocals

NextAgg ==
    \/ FetchInstanceMetrics
    \/ StoreMetric

SpecAgg == InitAgg /\ [][NextAgg]_vars

\* the sections the script has carried out
Ran(phase) == phase \in Range(steps)
\* the positions of the script after #13
PastMetrics == {"lb_metrics", "done"} \cup Range(TeardownSequence) \cup
               {"describe_listeners", "delete_listener", "delete_lb",
                "clb_describe", "delete_clb", "delete_tg", "terminate"}

\* C10 as stated: the benchmark and the metrics collection are carried out
\* only if both health gates returned Ready.
C10_BothPhasesGated ==
    (Ran("benchmark") \/ Ran("metrics") \/ Ran("lb_metrics")) =>
        (health_status_cluster1 /\ health_status_cluster2)

\* C10: only the benchmark is gated.  It is carried out only if both health
\* gates returned Ready, and with both Ready the script does not reach the
\* metrics collection without it; the metrics collection is carried out
\* whatever the gates returned: the script never gets past it without
\* having carried it out.
C10_OnlyBenchmarkGated ==
    /\ Ran("benchmark") => (health_status_cluster1 /\ health_status_cluster2)
    /\ (pc = "metrics" /\ health_status_cluster1 /\ health_status_cluster2)
           => Ran("benchmark")
    /\ pc \in PastMetrics => (Ran("gate_2") /\ Ran("metrics"))
    /\ pc \in PastMetrics \ {"lb_metrics"} => Ran("lb_metrics")

C10_Witness ==
    /\ pc = "done"
    /\ Ran("metrics") /\ Ran("lb_metrics")
    /\ ~Ran("benchmark")
    /\ health_status_cluster1
    /\ ~health_status_cluster2

\* ----------------------------------------------------------- health gate
\* A gate has just returned: the script is at the statement that follows
\* the call, and the locals of the gate still hold what it saw.
Returned == pc \in {"gate_2", "benchmark"}
Polling  == pc \in {"gate_1_wait", "gate_2_wait"}
\* the target group of the gate that has just returned or is polling
GateGroup ==
    IF pc \in {"gate_2", "gate_1_wait"} THEN target_group_arn_cluster1
                                        ELSE target_group_arn_cluster2
\* the value the gate that has just returned handed back
GateResult ==
    IF pc = "gate_2" THEN health_status_cluster1 ELSE health_status_cluster2

\* C11: the gate returns Ready at the first poll that reads every registered
\* target healthy: a gate that goes on polling has read no healthy snapshot
\* and has budget left, a gate whose latest read is healthy has returned
\* Ready within its budget, and Ready is returned on a healthy read only.
C11_ReadyAtFirstHealthyPoll ==
    /\ Polling => (last # "healthy" /\ attempt < max_retries)
    /\ (Returned /\ last = "healthy") => (GateResult /\ attempt <= max_retries)
    /\ (Returned /\ GateResult) => last = "healthy"

C11_Witness ==
    /\ pc = "gate_2"
    /\ health_status_cluster1
    /\ Targets(target_group_arn_cluster1, registered) # {}
    /\ attempt = 3
    /\ ~erred

\* C12: a gate on a group with a registered target that never becomes
\* healthy returns TimedOut, after exactly max_retries polls and holding the
\* last read; TimedOut is returned after exactly max_retries polls only, and
\* no gate polls more often than that.  The script has not raised.
C12_TimedOutAfterBudget ==
    /\ (Polling \/ Returned) => attempt <= max_retries
    /\ (Returned /\ ~(Targets(GateGroup, registered) \subseteq deployed)) =>
           (~GateResult /\ attempt = max_retries
            /\ last \in {"unhealthy", "error"} /\ err = "none")
    /\ (Returned /\ ~GateResult) => attempt = max_retries

C12_Witness ==
    /\ pc = "gate_2"
    /\ ~health_status_cluster1
    /\ ~(Targets(target_group_arn_cluster1, registered) \subseteq deployed)
    /\ attempt = max_retries
    /\ last = "unhealthy"
    /\ ~erred

\* C13: a gate on a group without registered targets returns Ready on its
\* first poll, the first poll being one that obtains the (empty) snapshot;
\* such a gate polls again only after a fetch that failed.
C13_EmptyGroupReadyAtOnce ==
    /\ (Returned /\ Targets(GateGroup, registered) = {} /\ ~erred) =>
           (GateResult /\ attempt = 1)
    /\ (Polling /\ Targets(GateGroup, registered) = {}) => erred

C13_Witness ==
    /\ pc = "gate_2"
    /\ target_group_arn_cluster1 \in acct
    /\ Targets(target_group_arn_cluster1, registered) = {}
    /\ instance_ids_micro # <<>>
    /\ health_status_cluster1
    /\ attempt = 1

\* C14: a failed fetch of the snapshot is one unsuccessful poll and no
\* failure of the gate: the script never raises in a gate, a gate whose
\* latest fetch failed has either budget left and polls again or has used
\* the whole budget and returns TimedOut, and a gate that saw a failed fetch
\* still returns Ready on a later healthy read.
C14_FetchErrorIsUnhealthyRead ==
    /\ (pc = "raised" /\ steps # <<>>) =>
           steps[Len(steps)] \notin {"register_2", "gate_1"}
    /\ erred => attempt >= 1
    /\ (Polling /\ last = "error") => attempt < max_retries
    /\ (Returned /\ last = "error") => (~GateResult /\ attempt = max_retries)
    /\ (Returned /\ erred /\ last = "healthy") => GateResult

C14_Witness ==
    /\ pc = "gate_2"
    /\ health_status_cluster1
    /\ erred
    /\ attempt = 2
    /\ last = "healthy"

\* ------------------------------------------------------------- sequencing
\* the sections of the script in the order of its text
ScriptOrder ==
    <<"network", "security_group", "key_pair", "instances_micro",
      "instances_large", "deploy_micro", "deploy_large", "target_group_1",
      "target_group_2", "load_balancer", "listener", "rule_1", "rule_2",
      "start", "register_1", "register_2", "gate_1", "gate_2", "benchmark",
      "metrics", "lb_metrics">>
IsPrefix(a, b) == Len(a) <= Len(b) /\ \A p \in 1..Len(a) : a[p] = b[p]
Without(seq, x) == SelectSeq(seq, LAMBDA e : e # x)

\* C15: the sections a run has carried out are an initial part of the fixed
\* order (network, security group, key pair, instances, deployment, target
\* groups, load balancer, listener, rules, start and running-state wait,
\* registrations, one health gate per target group, benchmark), the
\* benchmark being the only section that may be left out; no target is
\* registered before the running-state wait has returned and no benchmark
\* is carried out before both gates have returned.
C15_FixedOrder ==
    /\ \/ IsPrefix(steps, ScriptOrder)
       \/ IsPrefix(steps, Without(ScriptOrder, "benchmark"))
    /\ registered # {} => Ran("start")
    /\ pc \in {"register_1", "register_2"} => Ran("start")
    /\ (Ran("benchmark") \/ pc = "benchmark") => (Ran("gate_1") /\ Ran("gate_2"))

C15_Witness ==
    /\ pc = "metrics"
    /\ Len(steps) = 19
    /\ IsPrefix(steps, ScriptOrder)
    /\ registered = {<<TG(1), Inst(1)>>, <<TG(2), Inst(MaxMicro + 1)>>}

\* ---------------------------------------------------------------- handles
\* the handle h is one the script obtained and names a resource that exists
Live(h) == h # NoHandle /\ h \in acct

\* C16: whenever the script is about to carry out a step, the handles the
\* step consumes are present and name resources that exist: the target
\* group ARNs at listener creation, rule creation, registration and the
\* health gates, and the listener ARN at rule creation.
C16_HandlesAreLive ==
    /\ pc \in {"create_listener", "create_rule_1", "register_1", "gate_1",
               "gate_1_wait"} => Live(target_group_arn_cluster1)
    /\ pc \in {"create_rule_2", "register_2", "gate_2", "gate_2_wait"}
           => Live(target_group_arn_cluster2)
    /\ pc \in {"create_rule_1", "create_rule_2"} => Live(listener_arn)

\* C17: once create_target_group has returned normally, a target group of
\* that name exists and the value returned is its ARN.
C17_EnsureReturnsArn ==
    /\ Ran("target_group_1") =>
           (TG(1) \in acct /\ target_group_arn_cluster1 = TG(1))
    /\ Ran("target_group_2") =>
           (TG(2) \in acct /\ target_group_arn_cluster2 = TG(2))

\* ---------------------------------------------------------------- failures
\* the failures of a step that the script has gone past
DeployFailed ==
    \/ Ran("deploy_micro") /\ ~(Range(instance_ids_micro) \subseteq deployed)
    \/ Ran("deploy_large") /\ ~(Range(instance_ids_large) \subseteq deployed)
ListenerFailed == Ran("listener") /\ listener_arn = NoHandle
RegisterFailed ==
    \/ Ran("register_1") /\ target_group_arn_cluster1 # NoHandle
          /\ Targets(target_group_arn_cluster1, registered) = {}
    \/ Ran("register_2") /\ target_group_arn_cluster2 # NoHandle
          /\ Targets(target_group_arn_cluster2, registered) = {}
LastStep == IF steps = <<>> THEN "none" ELSE steps[Len(steps)]

\* C18 as stated: after a deployment that could not reach a host, or a
\* failed listener creation or registration, no later step of the run is
\* carried out.
C18_EveryFailureAborts ==
    /\ (DeployFailed \/ ListenerFailed) =>
           ~(Ran("register_1") \/ Ran("gate_1") \/ Ran("benchmark") \/ Ran("metrics"))
    /\ RegisterFailed =>
           ~(Ran("gate_1") \/ Ran("gate_2") \/ Ran("benchmark") \/ Ran("metrics"))

\* C18: a step that raises ends the run with its error and no step follows.
\* A host that the deployment cannot reach and an error of the registration
\* do not raise: no run ends in a registration, and a run that ends in a
\* deployment ends on an error of the SSH session.  A provider error of the
\* listener creation does not raise either; the run then ends at the first
\* rule creation, which refuses the absent listener ARN.
C18_OnlyRaisedFailuresAbort ==
    /\ pc = "raised" => (err # "none" /\ ~ENABLED NextMain)
    /\ pc = "raised" => LastStep \notin {"start", "register_1"}
    /\ (pc = "raised" /\ LastStep \in {"instances_large", "deploy_micro"})
           => err = "Other"
    /\ ListenerFailed =>
           /\ pc \in {"create_rule_1", "raised"}
           /\ LastStep = "listener"
           /\ pc = "raised" => err = "ParamValidation"

C18_Witness ==
    /\ Ran("metrics")
    /\ DeployFailed
    /\ RegisterFailed
    /\ deployed = {}
    /\ registered = {}
    /\ Live(target_group_arn_cluster1) /\ Live(target_group_arn_cluster2)

\* --------------------------------------------------------------- rollback
\* the resources the run has created so far, by the handles it holds
Created ==
    (Range(instance_ids_micro) \cup Range(instance_ids_large)
     \cup {target_group_arn_cluster1, target_group_arn_cluster2,
           load_balancer_arn, listener_arn}) \ {NoHandle}
\* the teardown of the script has not begun
BeforeTeardown == ~Ran("lb_metrics")

\* C19 as stated: before the teardown step the run deletes nothing, neither
\* what it created nor what the account held when the run began.
C19_DeletionsOnlyInTeardown ==
    BeforeTeardown => (Created \subseteq acct /\ start \subseteq acct
                       /\ terminated = {} /\ calls = <<>>)

\* C19: before the teardown step, whether a step has raised or not, every
\* resource the run created still exists, no instance has been terminated
\* and no call of the teardown functions has been issued; the only deletion
\* before the teardown is that of a target group of the script's names that
\* the account held when the run began, by create_target_group.
C19_NoRollback ==
    BeforeTeardown =>
        /\ Created \subseteq acct
        /\ terminated = {}
        /\ calls = <<>>
        /\ (start \ acct) \subseteq NamedGroups
        /\ (start \ acct) # {} => Ran("instances_large")

C19_Witness ==
    /\ pc = "raised"
    /\ BeforeTeardown
    /\ LastStep = "rule_1"
    /\ Created = {Inst(1), Inst(MaxMicro + 1), TG(1), TG(2), LB(1), Listener(1, 1)}
    /\ Created \subseteq acct

\* ------------------------------------------------------------------ waits
InPublicIpWait == pc \in {"public_ip_micro", "public_ip_large"}
InSshWait      == pc \in {"wait_ssh_micro", "wait_ssh_large"}
SshGaveUp      == pc \in {"skip_micro", "skip_large"}
SshConnected   == pc \in {"setup_micro", "setup_large"}

\* C20 as stated: both waits poll a bounded number of times and neither
\* raises when its attempts are used up.
C20_ExhaustionNeverRaises ==
    /\ InPublicIpWait => attempt < retries_public_ip
    /\ InSshWait => attempt < retries_ssh
    /\ err \notin {"NoPublicIp", "Unreachable"}

\* C20: both waits poll a bounded number of times.  wait_for_ssh, its
\* attempts used up, hands a negative result back to its caller and does
\* not raise; wait_for_public_ip, its attempts used up, raises, after
\* exactly retries_public_ip polls none of which found an address.
C20_BoundedWaits ==
    /\ InPublicIpWait => attempt < retries_public_ip
    /\ InSshWait => attempt < retries_ssh
    /\ SshGaveUp => (attempt = retries_ssh /\ last = "refused" /\ err = "none")
    /\ SshConnected => (attempt <= retries_ssh /\ last = "connected")
    /\ err # "Unreachable"
    /\ err = "NoPublicIp" =>
           (pc = "raised" /\ attempt = retries_public_ip /\ last = "no_ip")

C20_Witness ==
    /\ pc = "raised"
    /\ err = "NoPublicIp"
    /\ attempt = retries_public_ip
    /\ LastStep = "instances_micro"
    /\ Range(LargeIds) \subseteq acct

\* --------------------------------------------------- reuse of what exists
\* the provider answered one of the calls of create_key_pair with an error
KeyPairFault == "key_pair" \in faults

\* C21 as stated: a security group found by name is handed back with no
\* group created and no ingress rule added, and with the key pair held by
\* the provider create_key_pair returns without raising, whatever the state
\* of the local key file.
C21_ExistingIsReused ==
    /\ (SG(1) \in start /\ Ran("security_group") /\ BeforeTeardown) =>
          /\ securiy_group_id = SG(1)
          /\ OfKind(acct, "sg") = OfKind(start, "sg")
          /\ OfKind(acct, "ingress") = OfKind(start, "ingress")
    /\ (KP(1) \in start /\ LastStep = "security_group" /\ pc = "raised") =>
          KeyPairFault

\* ------------------------------------------------- provider errors surface
\* the sections whose operation ensures a resource
EnsureSteps == {"security_group", "key_pair", "target_group_1",
                "target_group_2"}
\* the section that comes before the section `phase`
Preceding(phase) ==
    CHOOSE q \in Range(ScriptOrder) :
        \E p \in 1..(Len(ScriptOrder) - 1) :
            ScriptOrder[p] = q /\ ScriptOrder[p + 1] = phase

\* C22 as stated: an unclassified provider error in the security-group,
\* key-pair or target-group ensure, in the listener creation or in the
\* target registration ends the script with that error; none of these
\* operations swallows it.
C22_EveryFaultPropagates ==
    faults # {} => (pc = "raised" /\ err = "Other")

\* C22, amended: an unclassified provider error in the security-group,
\* key-pair or target-group ensure ends the script in that section with that
\* error; create_listener and register_instances print it and return, the
\* listener ARN being None and the registrations unchanged.
C22_OnlyEnsuresPropagate ==
    /\ \A f \in faults \cap EnsureSteps :
          pc = "raised" /\ err = "Other" /\ LastStep = Preceding(f)
    /\ "listener" \in faults => (Ran("listener") /\ listener_arn = NoHandle)
    /\ "register_1" \in faults =>
          (Ran("register_1")
           /\ Targets(target_group_arn_cluster1, registered) = {})
    /\ "register_2" \in faults =>
          (Ran("register_2")
           /\ Targets(target_group_arn_cluster2, registered) = {})
C22_Witness ==
    /\ "target_group_2" \in faults
    /\ pc = "raised"
    /\ LastStep = "target_group_1"

\* ------------------------------------------------------------- two runs
\* the script is under way and has not reached its teardown
StillRunning == BeforeTeardown /\ pc \notin {"raised", "done"}
\* the function of the teardown sequence that deletes resources like h
PhaseOf(h) ==
    CASE Kind(h) \in {"lb", "listener"} -> "lb_describe"
      [] Kind(h) = "tg" -> "tg_describe"
      [] OTHER -> "inst_describe"

\* C23: nothing keeps the teardown of one run from deleting what another
\* run created and still uses: whenever the second run's teardown comes to
\* the function for a load balancer, target group or instance that the
\* script created, that exists, is not referenced by a listener and whose
\* run has not reached its own teardown, the step that deletes it (or
\* requests its termination) can be taken.
C23_NoMutualExclusion ==
    \A h \in Created :
        (StillRunning /\ Usable(h) /\ pc_other = PhaseOf(h)
            /\ h \notin tgBusy \cup Referenced)
        => ENABLED (OtherTeardown /\ (h \notin acct' \/ h \in terminated'))
C23_Witness ==
    /\ StillRunning
    /\ {LB(1), TG(1), Inst(1)} \subseteq Created \cap reaped

\* --------------------------------------------------------- wait_for_ssh
\* C24: wait_for_ssh makes at most retries_ssh attempts; it returns True at
\* the first attempt that connects, every attempt before it having failed,
\* and False after exactly retries_ssh failed attempts; no error of an
\* attempt leaves the loop; and it has slept once for every failed attempt,
\* the last one included.
C24_WaitForSsh ==
    /\ InSshWait =>
          (attempt < retries_ssh /\ slept = attempt
           /\ (attempt > 0 => last = "refused"))
    /\ SshConnected =>
          (attempt <= retries_ssh /\ last = "connected"
           /\ slept = attempt - 1)
    /\ SshGaveUp =>
          (attempt = retries_ssh /\ last = "refused"
           /\ slept = retries_ssh /\ err = "none")
    /\ err \notin SshErrors
C24_Witness ==
    /\ SshGaveUp
    /\ attempt = retries_ssh
    /\ slept = retries_ssh

\* ------------------------------------------------ the wait after attach
\* C25 as stated: the wait of attach_volume_to_instance is bounded: if the
\* attachment never reads 'attached', the function still comes to an end.
C25_AttachWaitEnds ==
    <>(attachment_state = "attached" \/ pc_attach \in {"returned", "raised"})

\* -------------------------------------------- the resource part of an ARN
\* the positions of the separator in the string str
Slashes(str) == {p \in 1..Len(str) : str[p] = "/"}
\* the position of the k-th separator, one past the end if there is none
SlashAt(str, k) ==
    IF Cardinality(Slashes(str)) < k THEN Len(str) + 1
    ELSE CHOOSE p \in Slashes(str) :
            Cardinality({q \in Slashes(str) : q <= p}) = k

\* C26 as stated: with at least four parts the function returns parts 2 to
\* 4 joined by '/', which is the text between the first separator and the
\* fourth; with fewer than four parts, exactly three included, it raises
\* ValueError.
C26_FourPartsOrValueError ==
    extracted # NotCalled =>
        IF Cardinality(Slashes(full_arn)) + 1 >= 4
        THEN /\ extracted.kind = "return"
             /\ extracted.value = SubSeq(full_arn, SlashAt(full_arn, 1) + 1,
                                         SlashAt(full_arn, 4) - 1)
        ELSE /\ extracted.kind = "raise"
             /\ extracted.error = "ValueError"

\* ------------------------------------------------ registration of targets
\* C27 as stated: every instance registered in a target group has had its
\* payload deployed.
C27_RegisteredAreDeployed ==
    \A r \in registered : r[2] \in deployed

\* C27, amended: the script registers every instance it created in the
\* target group of its cluster, whether or not the payload was deployed on
\* it; only a registration that fails leaves the group without targets.
C27_RegistersAllCreated ==
    /\ (Ran("register_1") /\ target_group_arn_cluster1 # NoHandle
           /\ "register_1" \notin faults)
        => Targets(target_group_arn_cluster1, registered)
              = Range(instance_ids_micro)
    /\ (Ran("register_2") /\ target_group_arn_cluster2 # NoHandle
           /\ "register_2" \notin faults)
        => Targets(target_group_arn_cluster2, registered)
              = Range(instance_ids_large)
C27_Witness ==
    /\ Ran("register_1")
    /\ \E r \in registered :
          r[1] = target_group_arn_cluster1 /\ r[2] \notin deployed

\* ------------------------------------------------- the averaged metrics
\* the sum of f over the set S of instance indices
RECURSIVE SumOver(_, _)
SumOver(S, f) ==
    IF S = {} THEN 0
    ELSE LET i == CHOOSE x \in S : TRUE IN f[i] + SumOver(S \ {i}, f)
\* the instances that have datapoints for the metric at position m
WithData(m) ==
    {i \in 1..Len(group_instance_ids) : datapoints[<<i, m>>] # {}}

\* C29 as stated: for every metric the stored value at each timestamp is
\* the sum of the values of the instances that contributed, divided by the
\* number of those instances, and the stored timestamps are those of the
\* metric's own data.
C29_AverageOfContributors ==
    \A m \in 1..Len(aggregated_data) :
        LET e == aggregated_data[m]
            values(i) == GetEc2Metrics(datapoints[<<i, m>>]).values
        IN  /\ \A p \in 1..Len(e.values) :
                  e.values[p][1] * Cardinality(e.contributors)
                     = SumOver(e.contributors,
                               [i \in e.contributors |-> values(i)[p]])
                       * e.values[p][2]
            /\ IF WithData(m) = {} THEN e.timestamps = <<>>
               ELSE \E i \in WithData(m) :
                       e.timestamps
                          = GetEc2Metrics(datapoints[<<i, m>>]).timestamps

\* ------------------------------------------------------------ properties
Pos == 1..Len(calls)
IsCall(p, op, h) == calls[p].op = op /\ calls[p].arg = <<h>>
\* a deletion attempt for h was issued at some position of S
AttemptedIn(S, op, h) == \E p \in S : IsCall(p, op, h)
\* the number of positions at which cond holds
Count(cond(_)) == Cardinality({p \in Pos : cond(p)})
\* the handles the orchestration run of TP1/main.py creates; every other
\* handle belongs to somebody else
RunCreated == {LB(1), Listener(1, 1), TG(1), TG(2), Inst(1), Inst(2)}

\* C1: whenever a deletion of a load balancer is issued, its listeners have
\* been described after its discovery and a deletion has been issued for
\* each of them before.
C1_ListenersBeforeLoadBalancer ==
    \A p \in Pos : calls[p].op = "delete_load_balancer" =>
        \E q \in 1..(p - 1) :
            /\ calls[q].op = "describe_listeners"
            /\ calls[q].arg = calls[p].arg
            /\ calls[q].res = "ok"
            /\ \A l \in Range(calls[q].ret) :
                   AttemptedIn((q + 1)..(p - 1), "delete_listener", l)

C1_Witness ==
    /\ pc = "done"
    /\ \A k \in 1..2 :
        \E p, q \in Pos :
            /\ p < q
            /\ IsCall(p, "delete_listener", Listener(1, k))
            /\ IsCall(q, "delete_load_balancer", LB(1))

\* C2: whenever a deletion of a target group is issued, a deletion has been
\* issued for every discovered load balancer (ELBv2 and classic) and for
\* every listener that was listed for one of them.
C2_LoadBalancersBeforeTargetGroups ==
    \A p \in Pos : calls[p].op = "delete_target_group" =>
        /\ \E d \in 1..(p - 1) :
            /\ calls[d].op = "describe_load_balancers"
            /\ \A lb \in Range(calls[d].ret) :
                   AttemptedIn(1..(p - 1), "delete_load_balancer", lb)
        /\ \E d \in 1..(p - 1) :
            /\ calls[d].op = "describe_classic"
            /\ \A clb \in Range(calls[d].ret) :
                   AttemptedIn(1..(p - 1), "delete_classic", clb)
        /\ \A q \in 1..(p - 1) : calls[q].op = "describe_listeners" =>
               \A l \in Range(calls[q].ret) :
                   AttemptedIn(1..(p - 1), "delete_listener", l)

C2_Witness ==
    \E p, q, r, t \in Pos :
        /\ p < q /\ q < r /\ r < t
        /\ calls[p].op = "delete_listener"
        /\ IsCall(q, "delete_load_balancer", LB(1))
        /\ IsCall(r, "delete_classic", CLB(1))
        /\ calls[t].op = "delete_target_group"

\* C3: an in-use answer to the deletion of a target group does not leave the
\* function: the script is not ended by it, the group is not tried again,
\* and the next call is the deletion of the next discovered group (or, after
\* the last one, the first call of the next function).  Once the function
\* has returned, every discovered group has been tried exactly once.
TGList ==
    IF \E d \in Pos : calls[d].op = "describe_target_groups"
    THEN calls[CHOOSE d \in Pos : calls[d].op = "describe_target_groups"].ret
    ELSE <<>>

TGAttempts(tg) ==
    Cardinality({p \in Pos : IsCall(p, "delete_target_group", tg)})

C3_InUseIsSkipped ==
    /\ \A tg \in AllTGs : TGAttempts(tg) <= 1
    /\ \A p \in Pos :
        (calls[p].op = "delete_target_group" /\ calls[p].res = "InUse") =>
            LET k == CHOOSE q \in 1..Len(TGList) : <<TGList[q]>> = calls[p].arg
            IN  /\ ~(p = Len(calls) /\ pc = "raised")
                /\ p = Len(calls) =>
                       pc = (IF k < Len(TGList) THEN "delete_tg" ELSE "inst_describe")
                /\ (p < Len(calls) /\ k < Len(TGList)) =>
                       IsCall(p + 1, "delete_target_group", TGList[k + 1])
                /\ (p < Len(calls) /\ k = Len(TGList)) =>
                       calls[p + 1].op = "describe_instances"
    /\ pc \in {"inst_describe", "terminate", "done"} =>
           \A tg \in Range(TGList) : TGAttempts(tg) = 1

C3_Witness ==
    /\ pc = "done"
    /\ \E p \in Pos :
        /\ IsCall(p, "delete_target_group", TG(1))
        /\ calls[p].res = "InUse"
        /\ p < Len(calls)
        /\ IsCall(p + 1, "delete_target_group", TG(2))
        /\ calls[p + 1].res = "ok"

\* C4: terminate_instances is called at most once in a pass, with exactly
\* the ids that describe_instances listed, after a deletion has been issued
\* for every discovered target group; with no instance listed it is not
\* called, and with some listed a pass that completes has called it once.
IsTerminate(p) == calls[p].op = "terminate_instances"
IsDescribeInstances(p) == calls[p].op = "describe_instances"

C4_OneBatchLast ==
    /\ Count(IsTerminate) <= 1
    /\ \A p \in Pos : IsTerminate(p) =>
        /\ p > 1
        /\ calls[p - 1].op = "describe_instances"
        /\ calls[p - 1].ret # <<>>
        /\ calls[p].arg = calls[p - 1].ret
        /\ \E d \in 1..(p - 1) : calls[d].op = "describe_target_groups"
        /\ \A tg \in Range(TGList) :
               AttemptedIn(1..(p - 1), "delete_target_group", tg)
    /\ pc = "done" =>
        \E d \in Pos :
            /\ IsDescribeInstances(d)
            /\ Count(IsTerminate) = (IF calls[d].ret = <<>> THEN 0 ELSE 1)

C4_Witness ==
    /\ pc = "done"
    /\ \E p \in Pos :
        /\ IsTerminate(p)
        /\ Range(calls[p].arg) = {Inst(1), Inst(2)}
        /\ Len(TGList) = 2

\* the result of the first call of op in the pass (<<>> before it)
Listed(op) ==
    IF \E d \in Pos : calls[d].op = op
    THEN calls[CHOOSE d \in Pos : calls[d].op = op /\ \A e \in 1..(d - 1) : calls[e].op # op].ret
    ELSE <<>>
Failing(p) == calls[p].res # "ok"
Handled(p) == calls[p].op = "delete_target_group" /\ calls[p].res = "InUse"
\* every discovered resource has had its deletion issued
AllIssued ==
    /\ \E d \in Pos : calls[d].op = "describe_load_balancers"
    /\ \A lb \in Range(Listed("describe_load_balancers")) :
           AttemptedIn(Pos, "delete_load_balancer", lb)
    /\ \A q \in Pos : calls[q].op = "describe_listeners" =>
           \A l \in Range(calls[q].ret) : AttemptedIn(Pos, "delete_listener", l)
    /\ \E d \in Pos : calls[d].op = "describe_classic"
    /\ \A clb \in Range(Listed("describe_classic")) :
           AttemptedIn(Pos, "delete_classic", clb)
    /\ \E d \in Pos : calls[d].op = "describe_target_groups"
    /\ \A tg \in Range(TGList) : AttemptedIn(Pos, "delete_target_group", tg)
    /\ \E d \in Pos : calls[d].op = "describe_instances"
    /\ Listed("describe_instances") # <<>> =>
           \E p \in Pos : IsTerminate(p) /\ calls[p].arg = Listed("describe_instances")

\* C5 as stated: no provider error ends the teardown; whatever failed, the
\* pass ends with a deletion issued for every discovered resource.
C5_NoErrorAborts ==
    /\ pc # "raised"
    /\ pc = "done" => AllIssued

\* C5 amended: only the in-use answer to a target-group deletion is confined
\* to its resource (the pass goes on, and a pass that completes has issued
\* every deletion); every other failed call is the last call of the pass:
\* the error leaves the script and nothing more is issued.
C5_OnlyInUseIsConfined ==
    /\ \A p \in Pos : (Failing(p) /\ ~Handled(p)) =>
           /\ p = Len(calls)
           /\ pc = "raised"
           /\ err = calls[p].res
    /\ \A p \in Pos : Handled(p) => ~(p = Len(calls) /\ pc = "raised")
    /\ pc = "raised" =>
           /\ calls # <<>>
           /\ Failing(Len(calls))
           /\ ~Handled(Len(calls))
    /\ pc = "done" => AllIssued

C5_Witness ==
    /\ pc = "raised"
    /\ err = "Other"
    /\ IsCall(Len(calls), "delete_listener", Listener(1, 1))
    /\ {LB(1), Listener(1, 1), Listener(1, 2), CLB(1), TG(1), Inst(1)} \subseteq acct

\* C6 as stated: a discovered resource that has gone missing never makes the
\* teardown raise.
C6_NotFoundIsNothingToDo ==
    pc = "raised" => err # "NotFound"

\* C6 amended: a not-found answer is not handled on the teardown path: the
\* call that gets it (describe_listeners or delete_listener on a resource
\* somebody else removed) is the last call of the pass, the error leaves the
\* script, and the resources not yet processed are left as they are.
C6_NotFoundRaises ==
    \A p \in Pos : calls[p].res = "NotFound" =>
        /\ p = Len(calls)
        /\ pc = "raised"
        /\ err = "NotFound"
        /\ calls[p].op \in {"describe_listeners", "delete_listener"}
        /\ Range(calls[p].arg) \cap acct = {}

C6_Witness ==
    /\ pc = "raised"
    /\ err = "NotFound"
    /\ otherSteps = 1
    /\ IsCall(Len(calls), "delete_listener", Listener(1, 1))
    /\ {LB(1), Listener(1, 2), CLB(1), TG(1), Inst(1)} \subseteq acct

\* C7: a pass that starts on an account with nothing visible issues only the
\* four account-wide describe calls, each answering the empty list: no
\* deletion, no termination, no error; the same again for the next pass.
DescribeOps == {"describe_load_balancers", "describe_classic",
                "describe_target_groups", "describe_instances"}

IsDeleted(op) == Cardinality({p \in Pos : calls[p].op = op /\ calls[p].res = "ok"})
Skipped == Cardinality({p \in Pos : Handled(p)})
Terminated ==
    IF \E p \in Pos : IsTerminate(p) /\ calls[p].res = "ok"
    THEN Len(calls[CHOOSE p \in Pos : IsTerminate(p) /\ calls[p].res = "ok"].arg)
    ELSE 0
\* the discovered target groups that are in use (they are still there)
InUseTGs == Range(TGList) \cap tgBusy \cap acct

KindOf(op) ==
    CASE op = "describe_load_balancers" -> "lb"
      [] op = "describe_classic" -> "clb"
      [] op = "describe_target_groups" -> "tg"
      [] op = "describe_instances" -> "instance"
      [] OTHER -> "listener"
ListedSet == UNION {Range(calls[p].ret) : p \in Pos}
TriedSet ==
    UNION {Range(calls[p].arg) : p \in {q \in Pos : calls[q].op \notin DescribeOps
                                              /\ calls[q].op # "describe_listeners"}}

C9_WorksFromDiscovery ==
    /\ \A p \in Pos :
        /\ calls[p].op \in DescribeOps =>
               Range(calls[p].ret) = OfKind(start, KindOf(calls[p].op))
        /\ (calls[p].op = "describe_listeners" /\ calls[p].res = "ok") =>
               Range(calls[p].ret) = ListenersOf(start, calls[p].arg[1])
    /\ TriedSet \subseteq ListedSet
    /\ pc = "done" => TriedSet = ListedSet
    /\ (pc = "done" /\ otherSteps = 0) => TriedSet = start

C9_Witness ==
    /\ pc = "done"
    /\ run = 1
    /\ TriedSet = start
    /\ {LB(1), TG(1), Inst(1)} \subseteq TriedSet \cap RunCreated
    /\ {Listener(1, 2), CLB(1)} \subseteq TriedSet \ RunCreated

\* the target groups whose deletion the provider refused as in use
RefusedInUse ==
    {tg \in AllTGs : \E p \in Pos : IsCall(p, "delete_target_group", tg)
                                    /\ calls[p].res = "InUse"}

\* C28: when the teardown sequence has completed without raising on an
\* account that nobody else modifies, no listener and no load balancer that
\* it discovered remains, termination has been requested for every instance
\* it discovered, and the discovered target groups that remain are exactly
\* those whose deletion was refused as in use.
C28_NothingLeftButInUse ==
    (pc = "done" /\ otherSteps = 0) =>
        /\ \A h \in ListedSet :
               Kind(h) \in {"lb", "listener", "clb"} => h \notin acct
        /\ OfKind(ListedSet, "instance") \subseteq terminated
        /\ OfKind(ListedSet, "tg") \cap acct = RefusedInUse

C28_Witness ==
    /\ pc = "done"
    /\ otherSteps = 0
    /\ run = 1
    /\ {LB(1), Listener(1, 1), CLB(1), TG(1), TG(2), Inst(1), Inst(2)}
          \subseteq ListedSet
    /\ RefusedInUse = {TG(2)}
    /\ TG(1) \notin acct

====
